---- MODULE Spec2Model ----
(***************************************************************************)
(* A model of the Multi-resolution-Energy-Forecasting benchmark code:      *)
(*   src/benchmarks.py          the NODE models and the baseline wrappers  *)
(*   src/example.py             experiment_with_all_baselines              *)
(*   src/torchlaplace/dataset.py  the data pipeline                        *)
(* Tensors are sequences: a batch is a sequence of rows, a row a sequence  *)
(* of timesteps, a timestep a sequence of channel values (integers).       *)
(***************************************************************************)
EXTENDS Integers, Sequences, FiniteSets, TLC

VARIABLES
    model,       \* the object under construction / constructed (benchmarks.py)
    nfe,         \* OdeFunc.nfe
    callsSince,  \* history: OdeFunc.forward invocations since the last read
    res,         \* the last call on the model and what it returned
    xp,          \* experiment_with_all_baselines: control state and locals
    disk,        \* the per-seed result files on disk
    log,         \* the records handed to the logger: <<level, kind, text, seed>>,
                 \* seed -1 in a record whose message does not name the seed
    ds,          \* generate_data_set / generate_tree_data_set: control state
    tsd,         \* a TimeSeriesDataset, and the batch collate_fn made of it
    sn,          \* a call of sine(): its arguments and what it returned
    wr           \* a model wrapper (GeneralNODE, GeneralNeuralNetwork,
                 \* GeneralPersistence) and the calls made on it

benchVars == <<model, nfe, callsSince, res>>
expVars == <<xp, disk, log>>
dataVars == <<ds>>
pipeVars == <<tsd, sn, wr>>
vars == <<model, nfe, callsSince, res, xp, disk, log, ds, tsd, sn, wr>>

(***************************************************************************)
(* Bounds of the model                                                     *)
(***************************************************************************)
MaxAug == 1        \* augment_dim ranges over 0..MaxAug
MaxNfe == 4        \* the evaluation counter is followed up to this value
MaxBatch == 2      \* rows of a batch
MaxRuns == 2       \* run_times ranges over 1..MaxRuns
MaxModels == 2     \* models of one experiment
MaxN == 11         \* trajectories of a data set: 0..MaxN, and ScenarioN
ScenarioN == 1000  \* the default trajectories_to_sample of example.py
MaxCells == 4      \* values of an observed batch (rows x timesteps x channels)
Dims == {1, 2}     \* obs_dim, latent_dim
ObsLens == {0, 1, 2}   \* timesteps of the observed window
Values == {0, 1}   \* channel values of the observed window
Thetas == {1, 2}   \* parameter settings of the learned networks
QueryTimes == {<<2>>, <<2, 4>>, <<0, 2, 4>>}   \* strictly increasing, even spacing
SolverMethods == {"euler", "midpoint"}
NNMethodStrings == {"lstm", "mlp", "gru"}
PersistenceStrings == {"naive", "loop", "mean"}

(***************************************************************************)
(* Tensor helpers                                                          *)
(***************************************************************************)
Min(a, b) == IF a <= b THEN a ELSE b

RECURSIVE SumSeq(_)
SumSeq(s) == IF s = <<>> THEN 0 ELSE Head(s) + SumSeq(Tail(s))

\* Python s[:n] and s[n:] for n >= 0
PySliceTo(s, n) == SubSeq(s, 1, Min(n, Len(s)))
PySliceFrom(s, n) == SubSeq(s, Min(n, Len(s)) + 1, Len(s))

Zeros(n) == [i \in 1..n |-> 0]

\* torch.nan: the placeholder of a value that is not known
NaN == -1

\* all (B, T, D) batches over Values
Batches(B, T, D) == [1..B -> [1..T -> [1..D -> Values]]]

RECURSIVE SumAll(_)
\* the sum of every value of a row (a sequence of timesteps)
SumAll(row) == IF row = <<>> THEN 0 ELSE SumSeq(Head(row)) + SumAll(Tail(row))

\* torch.flatten of a (1, T) time tensor
RECURSIVE Flatten(_)
Flatten(ti) == IF ti = <<>> THEN <<>> ELSE Head(ti) \o Flatten(Tail(ti))

\* torch.transpose(features, 0, 1): (T, B, dim) -> (B, T, dim)
Transpose01(f, B) == [b \in 1..B |-> [k \in 1..Len(f) |-> f[k][b]]]

(***************************************************************************)
(* benchmarks.py: constructors                                             *)
(***************************************************************************)
NoModel ==
    [st |-> "unconstructed", cls |-> "", exc |-> "", obs_dim |-> 0,
     latent_dim |-> 0, augment_dim |-> 0, ode_dim |-> 0, extrap |-> 0,
     method |-> "", kind |-> "", out_timesteps |-> 0]

\* OdeFunc.__init__: fc1 takes obs_dim (+ 1 for the time), the counter starts at 0
OdeFunc_init_nfe == 0

\* NODE.__init__
NODE_init(obs_dim, method, augment_dim, extrap) ==
    [NoModel EXCEPT !.st = "constructed", !.cls = "NODE", !.obs_dim = obs_dim,
                    !.ode_dim = obs_dim + augment_dim, !.method = method,
                    !.augment_dim = augment_dim, !.extrap = extrap]

\* LatentNODE.__init__: the vector field is built for obs_dim + augment_dim,
\* the encoder for latent_dim
LatentNODE_init(obs_dim, latent_dim, method, augment_dim, extrap) ==
    [NoModel EXCEPT !.st = "constructed", !.cls = "LatentNODE",
                    !.obs_dim = obs_dim, !.latent_dim = latent_dim,
                    !.ode_dim = obs_dim + augment_dim, !.method = method,
                    !.augment_dim = augment_dim, !.extrap = extrap]

\* Persistence.__init__: stores kind, checks nothing
Persistence_init(out_timesteps, kind) ==
    [NoModel EXCEPT !.st = "constructed", !.cls = "Persistence",
                    !.out_timesteps = out_timesteps, !.kind = kind]

\* GeneralPersistence.__init__
GeneralPersistence_init(out_timesteps, method) ==
    IF method = "naive"
    THEN [Persistence_init(out_timesteps, "naive") EXCEPT
              !.cls = "GeneralPersistence", !.method = method]
    ELSE IF method = "loop"
    THEN [Persistence_init(out_timesteps, "loop") EXCEPT
              !.cls = "GeneralPersistence", !.method = method]
    ELSE [NoModel EXCEPT !.st = "raised", !.cls = "GeneralPersistence",
                         !.exc = "ValueError", !.method = method]

\* GeneralNeuralNetwork.__init__
GeneralNeuralNetwork_init(obs_dim, out_timesteps, method) ==
    IF method = "lstm" \/ method = "mlp"
    THEN [NoModel EXCEPT !.st = "constructed", !.cls = "GeneralNeuralNetwork",
                         !.obs_dim = obs_dim, !.out_timesteps = out_timesteps,
                         !.method = method, !.kind = method]
    ELSE [NoModel EXCEPT !.st = "raised", !.cls = "GeneralNeuralNetwork",
                         !.exc = "ValueError", !.method = method]

(***************************************************************************)
(* benchmarks.py: the vector field and the integrator                      *)
(***************************************************************************)
\* a forward that does not count itself
OdeFunc_forward_nfe_lost(n) == n

\* OdeFunc.forward, line 27: self.nfe += 1
OdeFunc_forward_nfe(n) == n + 1

RECURSIVE NfeAfterCalls(_, _)
\* the counter after k invocations of OdeFunc.forward
NfeAfterCalls(n, k) == IF k = 0 THEN n ELSE NfeAfterCalls(OdeFunc_forward_nfe(n), k - 1)

\* OdeFunc.forward, lines 28-41: a learned map (t, z) -> dz/dt of z's shape
\* that mixes the channels; theta stands for the network's parameters
OdeFunc_forward_out(theta, t, z) ==
    [b \in 1..Len(z) |-> [i \in 1..Len(z[b]) |-> theta * SumSeq(z[b]) + t]]

AddScaled(y, c, d) ==
    [b \in 1..Len(y) |-> [i \in 1..Len(y[b]) |-> y[b][i] + c * d[b][i]]]

\* one step of the fixed-grid solver from t0 to t1
OdeStep(theta, method, y, t0, t1) ==
    LET dt == t1 - t0
        k1 == OdeFunc_forward_out(theta, t0, y)
    IN  IF method = "euler"
        THEN AddScaled(y, dt, k1)
        ELSE LET half == dt \div 2
                 k2 == OdeFunc_forward_out(theta, t0 + half, AddScaled(y, half, k1))
             IN  AddScaled(y, dt, k2)

EvalsPerStep(method) == IF method = "euler" THEN 1 ELSE 2

RECURSIVE OdeState(_, _, _, _, _)
\* the solution at t[k]: the initial state at t[1], then one step per time
OdeState(theta, method, y0, t, k) ==
    IF k = 1 THEN y0
    ELSE OdeStep(theta, method, OdeState(theta, method, y0, t, k - 1), t[k - 1], t[k])

\* odeint(func, y0, t, method): the states at every query time, (T, B, dim)
odeint(theta, method, y0, t) ==
    [k \in 1..Len(t) |-> OdeState(theta, method, y0, t, k)]

\* vector-field invocations of one odeint call
odeint_nevals(method, t) == (Len(t) - 1) * EvalsPerStep(method)

(***************************************************************************)
(* benchmarks.py: NODE, LatentNODE                                         *)
(***************************************************************************)
\* what a call returned: ok, or the exception it raised; x0, features (the
\* integrated state after the transpose) and nevals are the call's locals
Outcome(ok, exc, x0, features, out, nevals) ==
    [ok |-> ok, exc |-> exc, x0 |-> x0, features |-> features, out |-> out,
     nevals |-> nevals]

Raised(exc, nevals) == Outcome(FALSE, exc, <<>>, <<>>, <<>>, nevals)

\* an encode that ignores the flag
NODE_encode_x0_first(extrap, trajectories) ==
    [b \in 1..Len(trajectories) |-> trajectories[b][1]]

\* NODE.encode, lines 58-63
NODE_encode_x0(extrap, trajectories) ==
    IF extrap # 0
    THEN [b \in 1..Len(trajectories) |-> trajectories[b][Len(trajectories[b])]]
    ELSE [b \in 1..Len(trajectories) |-> trajectories[b][1]]

\* NODE.forward, lines 69-72
NODE_forward_x0(extrap, trajectories) ==
    IF extrap # 0
    THEN [b \in 1..Len(trajectories) |-> trajectories[b][Len(trajectories[b])]]
    ELSE [b \in 1..Len(trajectories) |-> trajectories[b][1]]

\* lines 74-80 and 117-123: the zero-initialised channels are appended
Augment(x0, augment_dim) ==
    IF augment_dim > 0
    THEN [b \in 1..Len(x0) |-> x0[b] \o Zeros(augment_dim)]
    ELSE x0

\* a trim that keeps the last augment_dim channels instead
NODE_forward_trim_back(features, augment_dim) ==
    [b \in 1..Len(features) |->
        [k \in 1..Len(features[b]) |->
            PySliceFrom(features[b][k], Len(features[b][k]) - augment_dim)]]

\* NODE.forward, line 91: features[:, :, :features.shape[2] - self.augment_dim]
NODE_forward_trim(features, augment_dim) ==
    [b \in 1..Len(features) |->
        [k \in 1..Len(features[b]) |->
            PySliceTo(features[b][k], Len(features[b][k]) - augment_dim)]]

\* LatentNODE.forward, line 133: features[:, :, features.shape[2] - self.augment_dim:]
LatentNODE_forward_trim(features, augment_dim) ==
    [b \in 1..Len(features) |->
        [k \in 1..Len(features[b]) |->
            PySliceFrom(features[b][k], Len(features[b][k]) - augment_dim)]]

\* the integration of both forward passes (lines 82-90, 125-132): nn.Linear
\* rejects a state that has not the width fc1 was built for, at the first
\* invocation of the vector field (which has counted itself by then)
Integrate(m, x_aug, t, theta) ==
    IF Len(t) >= 2 /\ Len(x_aug[1]) # m.ode_dim
    THEN Raised("RuntimeError", 1)
    ELSE Outcome(TRUE, "", <<>>,
                 Transpose01(odeint(theta, m.method, x_aug, t), Len(x_aug)),
                 <<>>, odeint_nevals(m.method, t))

\* NODE.forward
NODE_forward(m, trajectories, ti, theta) ==
    LET t == Flatten(ti) IN
    IF Len(trajectories[1]) = 0
    THEN Raised("IndexError", 0)
    ELSE LET x0 == NODE_forward_x0(m.extrap, trajectories)
             r == Integrate(m, Augment(x0, m.augment_dim), t, theta)
         IN  IF r.ok
             THEN [r EXCEPT !.x0 = x0,
                            !.out = NODE_forward_trim(r.features, m.augment_dim)]
             ELSE r

\* GRUEncoder.forward: a learned map from the whole observed window to a
\* vector of the encoder's dimension
GRUEncoder_forward(dimension, trajectories, theta) ==
    [b \in 1..Len(trajectories) |->
        [i \in 1..dimension |-> theta * SumAll(trajectories[b]) + i]]

\* LatentNODE.forward
LatentNODE_forward(m, trajectories, ti, theta) ==
    LET t == Flatten(ti) IN
    IF Len(trajectories[1]) = 0
    THEN Raised("RuntimeError", 0)
    ELSE LET x0 == GRUEncoder_forward(m.latent_dim, trajectories, theta)
             r == Integrate(m, Augment(x0, m.augment_dim), t, theta)
         IN  IF r.ok
             THEN [r EXCEPT !.x0 = x0,
                            !.out = LatentNODE_forward_trim(r.features, m.augment_dim)]
             ELSE r

\* GeneralNODE._get_and_reset_nfes, lines 270-272
GetAndResetNfes_return(n) == n
GetAndResetNfes_nfe(n) == 0

(***************************************************************************)
(* benchmarks.py: the baselines                                            *)
(***************************************************************************)
\* Persistence.forward, lines 193-198
Persistence_forward(m, i) ==
    IF m.kind = "naive"
    THEN IF Len(i[1]) = 0
         THEN Raised("IndexError", 0)
         ELSE Outcome(TRUE, "", <<>>, <<>>,
                  [b \in 1..Len(i) |-> [k \in 1..m.out_timesteps |-> i[b][Len(i[b])]]],
                  0)
    ELSE IF m.kind = "loop"
    THEN Outcome(TRUE, "", <<>>, <<>>,
             [b \in 1..Len(i) |->
                 PySliceFrom(i[b], Len(i[b]) - Min(m.out_timesteps, Len(i[b])))],
             0)
    ELSE Raised("UnboundLocalError", 0)

\* LSTMNetwork.forward / MLPNetwork.forward: a learned map from the observed
\* window to (out_timesteps, out_dim) values
Network_forward(m, i, theta) ==
    IF Len(i[1]) = 0
    THEN Raised("RuntimeError", 0)
    ELSE Outcome(TRUE, "", <<>>, <<>>,
             [b \in 1..Len(i) |->
                 [k \in 1..m.out_timesteps |->
                     [c \in 1..m.obs_dim |-> theta * SumAll(i[b]) + k + c]]],
             0)

(***************************************************************************)
(* benchmarks.py as a state machine: one object is constructed, then its   *)
(* methods are called                                                      *)
(***************************************************************************)
NoRes ==
    [op |-> "none", in |-> <<>>, t |-> <<>>, ok |-> TRUE, exc |-> "",
     x0 |-> <<>>, features |-> <<>>, out |-> <<>>, ret |-> 0, calls |-> 0]

CallRes(op, in, t, r) ==
    [NoRes EXCEPT !.op = op, !.in = in, !.t = t, !.ok = r.ok, !.exc = r.exc,
                  !.x0 = r.x0, !.features = r.features, !.out = r.out]

\* the batches a loader can hand to a model that takes D input channels
InputBatches(D) ==
    UNION {Batches(sh[1], sh[2], D) :
              sh \in {x \in (1..MaxBatch) \X ObsLens : x[1] * x[2] * D <= MaxCells}}

ExpIdle == xp = [pc |-> "off"] /\ disk = <<>> /\ log = <<>>
DataIdle == ds = [pc |-> "off"]
LoaderIdle == tsd = [pc |-> "off"]
SineIdle == sn = [pc |-> "off"]
WrapperIdle == wr = [pc |-> "off"]

InitBench ==
    /\ model = NoModel
    /\ nfe = 0
    /\ callsSince = 0
    /\ res = NoRes
    /\ ExpIdle
    /\ DataIdle
    /\ LoaderIdle /\ SineIdle /\ WrapperIdle

\* a constructed object of class cls, with no call in progress
Constructed(cls) == model.st = "constructed" /\ model.cls = cls /\ res.op = "none"

ConstructNODE ==
    /\ model.st = "unconstructed"
    /\ \E obs_dim \in Dims, method \in SolverMethods, augment_dim \in 0..MaxAug,
          extrap \in {0, 1} :
          model' = NODE_init(obs_dim, method, augment_dim, extrap)
    /\ nfe' = OdeFunc_init_nfe
    /\ UNCHANGED <<callsSince, res, expVars, dataVars, pipeVars>>

ConstructLatentNODE ==
    /\ model.st = "unconstructed"
    /\ \E obs_dim \in Dims, latent_dim \in Dims, method \in SolverMethods,
          augment_dim \in 0..MaxAug :
          model' = LatentNODE_init(obs_dim, latent_dim, method, augment_dim, 0)
    /\ nfe' = OdeFunc_init_nfe
    /\ UNCHANGED <<callsSince, res, expVars, dataVars, pipeVars>>

ConstructGeneralNeuralNetwork ==
    /\ model.st = "unconstructed"
    /\ \E obs_dim \in Dims, out_timesteps \in 1..2, method \in NNMethodStrings :
          model' = GeneralNeuralNetwork_init(obs_dim, out_timesteps, method)
    /\ UNCHANGED <<nfe, callsSince, res, expVars, dataVars, pipeVars>>

ConstructGeneralPersistence ==
    /\ model.st = "unconstructed"
    /\ \E out_timesteps \in 1..2, method \in PersistenceStrings :
          model' = GeneralPersistence_init(out_timesteps, method)
    /\ UNCHANGED <<nfe, callsSince, res, expVars, dataVars, pipeVars>>

ConstructPersistence ==
    /\ model.st = "unconstructed"
    /\ \E out_timesteps \in 1..2, kind \in PersistenceStrings :
          model' = Persistence_init(out_timesteps, kind)
    /\ UNCHANGED <<nfe, callsSince, res, expVars, dataVars, pipeVars>>

\* one invocation of the vector field
OdeFuncForward ==
    /\ Constructed("NODE") \/ Constructed("LatentNODE")
    /\ nfe + 1 <= MaxNfe
    /\ \E theta \in Thetas, t \in {0, 2}, z \in Batches(1, 1, model.ode_dim) :
          res' = [NoRes EXCEPT !.op = "ode_func", !.in = z, !.t = <<t>>,
                               !.out = OdeFunc_forward_out(theta, t, z[1])]
    /\ nfe' = OdeFunc_forward_nfe(nfe)
    /\ callsSince' = callsSince + 1
    /\ UNCHANGED <<model, expVars, dataVars, pipeVars>>

\* NODE.forward on one batch
NODEForward ==
    /\ Constructed("NODE")
    /\ \E trajectories \in InputBatches(model.obs_dim), ti \in QueryTimes,
          theta \in Thetas :
          LET r == NODE_forward(model, trajectories, <<ti>>, theta) IN
          /\ nfe + r.nevals <= MaxNfe
          /\ res' = CallRes("forward", trajectories, ti, r)
          /\ nfe' = NfeAfterCalls(nfe, r.nevals)
          /\ callsSince' = callsSince + r.nevals
    /\ UNCHANGED <<model, expVars, dataVars, pipeVars>>

\* NODE.encode on one batch
NODEEncode ==
    /\ Constructed("NODE")
    /\ \E trajectories \in InputBatches(model.obs_dim) :
          res' = IF Len(trajectories[1]) = 0
                 THEN CallRes("encode", trajectories, <<>>, Raised("IndexError", 0))
                 ELSE CallRes("encode", trajectories, <<>>,
                          Outcome(TRUE, "", <<>>, <<>>,
                                  NODE_encode_x0(model.extrap, trajectories), 0))
    /\ UNCHANGED <<model, nfe, callsSince, expVars, dataVars, pipeVars>>

\* LatentNODE.forward on one batch
LatentNODEForward ==
    /\ Constructed("LatentNODE")
    /\ \E trajectories \in InputBatches(model.latent_dim), ti \in QueryTimes,
          theta \in Thetas :
          LET r == LatentNODE_forward(model, trajectories, <<ti>>, theta) IN
          /\ nfe + r.nevals <= MaxNfe
          /\ res' = CallRes("forward", trajectories, ti, r)
          /\ nfe' = NfeAfterCalls(nfe, r.nevals)
          /\ callsSince' = callsSince + r.nevals
    /\ UNCHANGED <<model, expVars, dataVars, pipeVars>>

\* GeneralNODE._get_and_reset_nfes (GeneralNODE.model is a NODE)
GetAndResetNfes ==
    /\ Constructed("NODE")
    /\ res' = [NoRes EXCEPT !.op = "get_and_reset_nfes",
                            !.ret = GetAndResetNfes_return(nfe),
                            !.calls = callsSince]
    /\ nfe' = GetAndResetNfes_nfe(nfe)
    /\ callsSince' = 0
    /\ UNCHANGED <<model, expVars, dataVars, pipeVars>>

\* the forward pass of a baseline (Persistence, LSTMNetwork, MLPNetwork)
BaselineForward ==
    /\ model.st = "constructed"
    /\ res.op = "none"
    /\ model.cls \in {"Persistence", "GeneralPersistence", "GeneralNeuralNetwork"}
    /\ \E i \in InputBatches(IF model.obs_dim = 0 THEN 1 ELSE model.obs_dim),
          theta \in Thetas :
          res' = CallRes("forward", i, <<>>,
                         IF model.cls = "GeneralNeuralNetwork"
                         THEN Network_forward(model, i, theta)
                         ELSE Persistence_forward(model, i))
    /\ UNCHANGED <<model, nfe, callsSince, expVars, dataVars, pipeVars>>

\* the caller takes the result of the call
Return ==
    /\ res.op # "none"
    /\ res' = NoRes
    /\ UNCHANGED <<model, nfe, callsSince, expVars, dataVars, pipeVars>>

NextBench ==
    \/ ConstructNODE
    \/ ConstructLatentNODE
    \/ ConstructGeneralNeuralNetwork
    \/ ConstructGeneralPersistence
    \/ ConstructPersistence
    \/ OdeFuncForward
    \/ NODEForward
    \/ NODEEncode
    \/ LatentNODEForward
    \/ GetAndResetNfes
    \/ BaselineForward
    \/ Return

SpecBench == InitBench /\ [][NextBench]_vars

(***************************************************************************)
(* Properties of benchmarks.py, checked under SpecBench                    *)
(***************************************************************************)
IsOde == model.cls = "NODE" \/ model.cls = "LatentNODE"
IsBaseline ==
    model.cls \in {"Persistence", "GeneralPersistence", "GeneralNeuralNetwork"}
ForwardOk == res.op = "forward" /\ res.ok

\* C1: the counter equals the number of OdeFunc.forward invocations since the
\* last _get_and_reset_nfes (or since construction): each invocation adds
\* exactly 1 and nothing else changes it; _get_and_reset_nfes returns that
\* number and leaves the counter at 0.
C1_NfeCountsEveryInvocation ==
    model.cls = "NODE" =>
        /\ nfe = callsSince
        /\ res.op = "get_and_reset_nfes" => (res.ret = res.calls /\ nfe = 0)

\* a read that returns the evaluations of more than one forward pass
C1_Witness ==
    /\ model.cls = "NODE"
    /\ res.op = "get_and_reset_nfes"
    /\ res.ret = 3

\* C2: with augment_dim = 0 the forward pass of NODE and of LatentNODE
\* returns the full integrated state, every channel kept.
C2_NoAugmentReturnsFullState ==
    (IsOde /\ ForwardOk /\ model.augment_dim = 0) => res.out = res.features

\* C3: with augment_dim = a > 0 the forward pass of NODE and of LatentNODE
\* returns the state without its a augmented channels: state_dim - a channels,
\* those that carried the un-augmented initial state.
C3_AugmentedChannelsTrimmed ==
    (IsOde /\ ForwardOk /\ model.augment_dim > 0) =>
        \A b \in 1..Len(res.out) : \A k \in 1..Len(res.out[b]) :
            res.out[b][k] =
                SubSeq(res.features[b][k], 1,
                       Len(res.features[b][k]) - model.augment_dim)

\* C21: in every forward pass of a NODE or a LatentNODE on a non-empty
\* observed window, whatever obs_dim, latent_dim and augment_dim it was
\* constructed with, the state handed to the integrator (the initial state
\* and its augment_dim appended channels) has the width the vector field was
\* built for, obs_dim + augment_dim, so the pass is not rejected by fc1.
C21_IntegratorStateHasFieldWidth ==
    (IsOde /\ res.op = "forward" /\ Len(res.in[1]) > 0) =>
        /\ res.ok
        /\ Len(res.x0[1]) + model.augment_dim = model.ode_dim

\* C4: the trajectory NODE.forward returns equals the seed state x0 at the
\* first query time, for every row, solver method and parameter setting.
C4_SeedTimeIsSeedState ==
    (model.cls = "NODE" /\ ForwardOk) =>
        \A b \in 1..Len(res.out) : res.out[b][1] = res.x0[b]

\* an augmented NODE integrated over three query times, moving away from x0
C4_Witness ==
    /\ model.cls = "NODE"
    /\ ForwardOk
    /\ model.augment_dim > 0
    /\ model.method = "midpoint"
    /\ Len(res.t) = 3
    /\ res.out[1][3] # res.out[1][1]
    /\ res.x0[1] # Zeros(model.obs_dim)

\* C5: NODE's x0 is the first observed timestep when extrap is false and the
\* last when it is true, in encode and in forward alike.
C5_InitialConditionByFlag ==
    (model.cls = "NODE" /\ res.ok /\ res.op \in {"forward", "encode"}) =>
        \A b \in 1..Len(res.in) :
            LET x0 == IF res.op = "forward" THEN res.x0[b] ELSE res.out[b]
            IN  x0 = IF model.extrap # 0
                     THEN res.in[b][Len(res.in[b])]
                     ELSE res.in[b][1]

\* encode in extrapolation mode on a window whose ends differ
C5_Witness ==
    /\ model.cls = "NODE"
    /\ res.op = "encode"
    /\ res.ok
    /\ model.extrap = 1
    /\ Len(res.in[1]) = 2
    /\ res.in[1][1] # res.in[1][2]

\* C9: a baseline with an unrecognised method string is rejected when it is
\* constructed: no constructed GeneralNeuralNetwork, GeneralPersistence or
\* Persistence holds one, and none reaches forward with one.
C9_UnknownMethodRejectedAtConstruction ==
    (model.st = "constructed" /\ IsBaseline) =>
        model.kind \in {"lstm", "mlp", "naive", "loop"}

(***************************************************************************)
(* example.py: experiment_with_all_baselines                               *)
(***************************************************************************)
\* the (model_name, system) pairs of lines 113-170 in their order there; the
\* list of a run is the entries left uncommented
AllModelNames == <<"Neural Laplace", "NODE", "Persistence">>

RECURSIVE SubLists(_)
\* the order-preserving sublists of a list
SubLists(l) ==
    IF l = <<>> THEN {<<>>}
    ELSE LET rest == SubLists(Tail(l))
         IN  rest \cup {<<Head(l)>> \o r : r \in rest}

ModelLists == {l \in SubLists(AllModelNames) : Len(l) >= 1 /\ Len(l) <= MaxModels}

NoExc == [stage |-> "", model |-> "", seed |-> -1]
Exc(stage, name, seed) == [stage |-> stage, model |-> name, seed |-> seed]

EmptyDict == [meta |-> FALSE, entries |-> <<>>]
Absent == [st |-> "absent", dict |-> EmptyDict]

\* open(path, "wb"): the file is created or truncated
OpenWb(file) == [st |-> "truncated", dict |-> EmptyDict]
\* pickle.dump(saved_dict, f) run to its end
PickleDump(d) == [st |-> "written", dict |-> d]

\* an except clause that swallows the error and goes on with the next model
ExceptClause_swallow(x) == [x EXCEPT !.pc = "models"]

\* lines 231-235: the error is logged (by ExceptHandler) and raised again
ExceptClause(x) == [x EXCEPT !.pc = "raised", !.exc = x.caught]

InitExperiment ==
    /\ \E models \in ModelLists, run_times \in 1..MaxRuns :
          xp = [pc |-> "data", models |-> models, run_times |-> run_times,
                seed |-> 0, mi |-> 0, saved |-> EmptyDict, df |-> <<>>,
                tl |-> "", caught |-> NoExc, exc |-> NoExc,
                started |-> <<>>, done |-> <<>>, flushed |-> FALSE]
    /\ disk = [s \in 0..(MaxRuns - 1) |-> Absent]
    /\ log = <<>>
    /\ model = NoModel /\ nfe = 0 /\ callsSince = 0 /\ res = NoRes
    /\ DataIdle
    /\ LoaderIdle /\ SineIdle /\ WrapperIdle

CurModel == xp.models[xp.mi]

\* an exception outside the try block leaves the function as it is
Propagate(stage) ==
    xp' = [xp EXCEPT !.pc = "raised", !.exc = Exc(stage, "", xp.seed)]

\* an exception inside the try block (lines 171-230) reaches the except clause
Caught(stage) ==
    xp' = [xp EXCEPT !.pc = "except", !.caught = Exc(stage, CurModel, xp.seed)]

\* lines 74-107: the data set of the seed and the fresh saved_dict
GenerateDataSet ==
    /\ xp.pc = "data"
    /\ \/ xp' = [xp EXCEPT !.pc = "presave",
                           !.saved = [meta |-> TRUE, entries |-> <<>>],
                           !.done = <<>>, !.flushed = FALSE]
       \/ Propagate("data")
    /\ UNCHANGED <<disk, log, benchVars, dataVars, pipeVars>>

\* line 110
PreSaveOpen ==
    /\ xp.pc = "presave"
    /\ disk' = [disk EXCEPT ![xp.seed] = OpenWb(@)]
    /\ xp' = [xp EXCEPT !.pc = "presave_dump"]
    /\ UNCHANGED <<log, benchVars, dataVars, pipeVars>>

\* line 111
PreSaveDump ==
    /\ xp.pc = "presave_dump"
    /\ \/ /\ disk' = [disk EXCEPT ![xp.seed] = PickleDump(xp.saved)]
          /\ xp' = [xp EXCEPT !.pc = "models", !.flushed = TRUE]
       \/ /\ Propagate("presave")
          /\ UNCHANGED disk
    /\ UNCHANGED <<log, benchVars, dataVars, pipeVars>>

\* the head of the loop of line 113, and lines 171-184 of its body
BeginModel ==
    /\ xp.pc = "models"
    /\ xp.mi < Len(xp.models)
    /\ xp' = [xp EXCEPT !.pc = "train", !.mi = @ + 1,
                        !.started = Append(@, <<xp.models[xp.mi + 1], xp.seed>>)]
    /\ log' = Append(log, <<"info", "start", xp.models[xp.mi + 1], xp.seed>>)
    /\ UNCHANGED <<disk, benchVars, dataVars, pipeVars>>

\* lines 177-195: every model but Persistence is trained
Train ==
    /\ xp.pc = "train"
    /\ IF CurModel = "Persistence"
       THEN xp' = [xp EXCEPT !.pc = "predict"]
       ELSE \/ xp' = [xp EXCEPT !.pc = "predict", !.tl = CurModel]
            \/ Caught("train")
    /\ UNCHANGED <<disk, log, benchVars, dataVars, pipeVars>>

\* lines 196-197
Predict ==
    /\ xp.pc = "predict"
    /\ \/ xp' = [xp EXCEPT !.pc = "score"]
       \/ Caught("predict")
    /\ UNCHANGED <<disk, log, benchVars, dataVars, pipeVars>>

\* lines 198-202
Score ==
    /\ xp.pc = "score"
    /\ \/ xp' = [xp EXCEPT !.pc = "record"]
       \/ Caught("score")
    /\ UNCHANGED <<disk, log, benchVars, dataVars, pipeVars>>

\* lines 203-225: the result is logged and appended to the list of results,
\* then the entry of the model is built from train_losses, val_losses and
\* train_nfes, names that are bound only once a model has been trained
Record ==
    /\ xp.pc = "record"
    /\ log' = Append(log, <<"info", "result", CurModel, xp.seed>>)
    /\ IF xp.tl = ""
       THEN xp' = [xp EXCEPT !.pc = "except",
                             !.df = Append(@, <<CurModel, xp.seed>>),
                             !.caught = Exc("record", CurModel, xp.seed)]
       ELSE xp' = [xp EXCEPT !.pc = "ckpt",
                             !.df = Append(@, <<CurModel, xp.seed>>),
                             !.saved.entries =
                                 Append(@, [model |-> CurModel, seed |-> xp.seed,
                                            train_losses |-> xp.tl])]
    /\ UNCHANGED <<disk, benchVars, dataVars, pipeVars>>

\* line 227
CheckpointOpen ==
    /\ xp.pc = "ckpt"
    /\ disk' = [disk EXCEPT ![xp.seed] = OpenWb(@)]
    /\ xp' = [xp EXCEPT !.pc = "ckpt_dump"]
    /\ UNCHANGED <<log, benchVars, dataVars, pipeVars>>

\* lines 228-230
CheckpointDump ==
    /\ xp.pc = "ckpt_dump"
    /\ \/ /\ disk' = [disk EXCEPT ![xp.seed] = PickleDump(xp.saved)]
          /\ xp' = [xp EXCEPT !.pc = "models", !.done = Append(@, CurModel)]
       \/ /\ Caught("checkpoint")
          /\ UNCHANGED disk
    /\ UNCHANGED <<log, benchVars, dataVars, pipeVars>>

\* lines 231-235: logger.error(e), logger.error(f"Error for model: ..."), raise e
ExceptHandler ==
    /\ xp.pc = "except"
    /\ log' = log \o <<<<"error", "exception", xp.caught.stage, -1>>,
                       <<"error", "model", xp.caught.model, -1>>>>
    /\ xp' = ExceptClause(xp)
    /\ UNCHANGED <<disk, benchVars, dataVars, pipeVars>>

\* lines 236-237, after the last model of the seed
FinalOpen ==
    /\ xp.pc = "models"
    /\ xp.mi = Len(xp.models)
    /\ disk' = [disk EXCEPT ![xp.seed] = OpenWb(@)]
    /\ xp' = [xp EXCEPT !.pc = "final_dump"]
    /\ UNCHANGED <<log, benchVars, dataVars, pipeVars>>

\* line 238, then the next seed of the loop of line 73
FinalDump ==
    /\ xp.pc = "final_dump"
    /\ \/ /\ disk' = [disk EXCEPT ![xp.seed] = PickleDump(xp.saved)]
          /\ IF xp.seed + 1 < xp.run_times
             THEN xp' = [xp EXCEPT !.pc = "data", !.seed = @ + 1, !.mi = 0,
                                   !.done = <<>>, !.flushed = FALSE]
             ELSE xp' = [xp EXCEPT !.pc = "report"]
       \/ /\ Propagate("final")
          /\ UNCHANGED disk
    /\ UNCHANGED <<log, benchVars, dataVars, pipeVars>>

\* lines 241-246
Report ==
    /\ xp.pc = "report"
    /\ xp' = [xp EXCEPT !.pc = "returned"]
    /\ log' = Append(log, <<"info", "report", "", xp.seed>>)
    /\ UNCHANGED <<disk, benchVars, dataVars, pipeVars>>

\* the process is killed
Crash ==
    /\ xp.pc \notin {"off", "raised", "returned", "crashed"}
    /\ xp' = [xp EXCEPT !.pc = "crashed"]
    /\ UNCHANGED <<disk, log, benchVars, dataVars, pipeVars>>

NextExperiment ==
    \/ GenerateDataSet
    \/ PreSaveOpen
    \/ PreSaveDump
    \/ BeginModel
    \/ Train
    \/ Predict
    \/ Score
    \/ Record
    \/ CheckpointOpen
    \/ CheckpointDump
    \/ ExceptHandler
    \/ FinalOpen
    \/ FinalDump
    \/ Report
    \/ Crash

SpecExperiment == InitExperiment /\ [][NextExperiment]_vars

RunFailure == {"train", "predict", "score"}

C7_FileHoldsFinishedResults ==
    (xp.pc # "off" /\ xp.flushed) =>
        /\ disk[xp.seed].st = "written"
        /\ disk[xp.seed].dict.meta
        /\ \A i \in 1..Len(xp.done) :
              \E j \in 1..Len(disk[xp.seed].dict.entries) :
                  /\ disk[xp.seed].dict.entries[j] = xp.saved.entries[i]
                  /\ disk[xp.seed].dict.entries[j].model = xp.done[i]

(***************************************************************************)
(* torchlaplace/dataset.py: generate_data_set, generate_tree_data_set      *)
(* A trajectory is named by its position in the loaded tensor.             *)
(***************************************************************************)
DatasetNames == {"nrel", "sine", "mfred", "gef", "solete"}
KnownDatasets == {"nrel", "sine", "mfred"}

Range(s) == {s[i] : i \in 1..Len(s)}

\* what nrel(), sine() or mfred() hand back for a source of N trajectories;
\* none of them can build a tensor of no trajectories
LoadTrajectories(N) ==
    IF N = 0
    THEN [ok |-> FALSE, exc |-> "RuntimeError", trajectories |-> <<>>]
    ELSE [ok |-> TRUE, exc |-> "", trajectories |-> [i \in 1..N |-> i]]

\* a dispatch that falls back to the sine data set
generate_tree_data_set_load_fallback(name, N) == LoadTrajectories(N)

\* generate_data_set, lines 212-227
generate_data_set_load(name, N) ==
    IF name = "nrel" THEN LoadTrajectories(N)
    ELSE IF name = "sine" THEN LoadTrajectories(N)
    ELSE IF name = "mfred" THEN LoadTrajectories(N)
    ELSE [ok |-> FALSE, exc |-> "ValueError", trajectories |-> <<>>]

\* generate_tree_data_set, lines 342-358
generate_tree_data_set_load(name, N) ==
    IF name = "nrel" THEN LoadTrajectories(N)
    ELSE IF name = "sine" THEN LoadTrajectories(N)
    ELSE IF name = "mfred" THEN LoadTrajectories(N)
    ELSE [ok |-> FALSE, exc |-> "ValueError", trajectories |-> <<>>]

\* a split point rounded to the nearest integer
train_split_round(N) == (8 * N + 5) \div 10

\* lines 244-245 and 375-376: int(0.8 * N), int(0.9 * N). The doubles 0.8 and
\* 0.9 exceed 8/10 and 9/10 by less than half a unit in the last place, so
\* the product rounds to 8N/10 (9N/10) whenever that is an integer and the
\* truncation is the floor of the exact quotient.
train_split(N) == (8 * N) \div 10
test_split(N) == (9 * N) \div 10

\* the permutations torch.randperm(n) is followed through
Perms(n) ==
    {[i \in 1..n |-> i], [i \in 1..n |-> n + 1 - i], [i \in 1..n |-> (i % n) + 1]}

\* tensor[index]: the rows of the tensor at the (1-based) indices
Take(tensor, index) == [i \in 1..Len(index) |-> tensor[index[i]]]

\* lines 246-262 and 377-403: the three splits
SplitOf(trajectories, ood, traj_index) ==
    LET N == Len(trajectories)
        a == train_split(N)
        b == test_split(N)
    IN  IF ood
        THEN [train |-> SubSeq(trajectories, 1, a),
              val |-> SubSeq(trajectories, a + 1, b),
              test |-> SubSeq(trajectories, b + 1, N)]
        ELSE [train |-> Take(trajectories, SubSeq(traj_index, 1, a)),
              val |-> Take(trajectories, SubSeq(traj_index, a + 1, b)),
              test |-> Take(trajectories, SubSeq(traj_index, b + 1, N))]

(***************************************************************************)
(* generate_data_set, generate_tree_data_set: the values of the tensors    *)
(* and their normalization.  Statistics and normalized values are kept as  *)
(* exact quantities: over the n numbers of a channel with sum S and sum of *)
(* squares Q, the mean is S / n, the standard deviation sqrt(n Q - S S) / n *)
(* and the normalized x is (n x - S) / sqrt(n Q - S S).                    *)
(***************************************************************************)
DataT == 2         \* timesteps of a trajectory of the data sets
MaxEpochs == 2     \* iterations over the loaders that are followed
ExampleBatchSize == 128    \* the default batch_size of example.py

\* channels of the tensor nrel(), sine(), mfred() return: the series and its
\* covariates (lines 149-154, 184-188, 124-129)
Channels(name) == IF name = "sine" THEN 1 ELSE IF name = "mfred" THEN 2 ELSE 3

\* what the series look like: changing from trajectory to trajectory and
\* step to step; alternating between two levels; one level throughout; a
\* covariate known at every other step only
SeriesKinds == {"ramp", "step", "const", "gap"}

\* the value of trajectory i at timestep k in channel c
RawCell(kind, i, k, c) ==
    IF kind = "step" THEN i % 2
    ELSE IF kind = "const" THEN 5
    ELSE IF kind = "gap" /\ c >= 2 /\ k = 1 THEN NaN
    ELSE (i + k + c) % 7

RawTraj(kind, C, i) == [k \in 1..DataT |-> [c \in 1..C |-> RawCell(kind, i, k, c)]]

RECURSIVE SumRange(_, _, _)
\* s[lo] + ... + s[hi]
SumRange(s, lo, hi) ==
    IF lo > hi THEN 0
    ELSE IF lo = hi THEN s[lo]
    ELSE LET mid == (lo + hi) \div 2
         IN  SumRange(s, lo, mid) + SumRange(s, mid + 1, hi)

\* np.nanmean / np.nanstd over axis 0 of the (-1, dim) view, channel c: the
\* count, sum and sum of squares of the values that are no NaN
NanMoments(trajs, c) ==
    LET cnt == [i \in 1..Len(trajs) |->
                   SumSeq([k \in 1..Len(trajs[i]) |->
                              IF trajs[i][k][c] = NaN THEN 0 ELSE 1])]
        sum == [i \in 1..Len(trajs) |->
                   SumSeq([k \in 1..Len(trajs[i]) |->
                              IF trajs[i][k][c] = NaN THEN 0 ELSE trajs[i][k][c]])]
        sq  == [i \in 1..Len(trajs) |->
                   SumSeq([k \in 1..Len(trajs[i]) |->
                              IF trajs[i][k][c] = NaN THEN 0
                              ELSE trajs[i][k][c] * trajs[i][k][c]])]
    IN  [n |-> SumRange(cnt, 1, Len(trajs)), S |-> SumRange(sum, 1, Len(trajs)),
         Q |-> SumRange(sq, 1, Len(trajs))]

\* the statistics of channel c: mean = num / den, std = sqrt(rad) / den
StatsOf(trajs, c) ==
    LET m == NanMoments(trajs, c)
    IN  [mean |-> [num |-> m.S, den |-> m.n],
         std |-> [rad |-> m.n * m.Q - m.S * m.S, den |-> m.n]]

\* statistics taken over the whole data set
generate_data_set_stats_all(train_trajectories, val_trajectories, test_trajectories, dim) ==
    [c \in 1..dim |->
        StatsOf(train_trajectories \o val_trajectories \o test_trajectories, c)]

\* lines 267-271 and 411-415: train_mean, train_std
generate_data_set_stats(train_trajectories, val_trajectories, test_trajectories, dim) ==
    [c \in 1..dim |-> StatsOf(train_trajectories, c)]

\* lines 282-283 and 426-427: train_std = 1, train_mean = 0
NoStats == <<[mean |-> [num |-> 0, den |-> 1], std |-> [rad |-> 1, den |-> 1]]>>

\* a value of a tensor: num / sqrt(rad), or not a number, or infinite
Fin(num, rad) == [k |-> "fin", num |-> num, rad |-> rad]
NaNValue == [k |-> "nan", num |-> 0, rad |-> 1]
Inf(sign) == [k |-> "inf", num |-> sign, rad |-> 1]

\* a value as loaded
Raw(x) == IF x = NaN THEN NaNValue ELSE Fin(x, 1)

\* (x - train_mean) / train_std in IEEE arithmetic: a NaN stays one, the mean
\* of no value is NaN, 0 / 0 is NaN and anything else over 0 is infinite
NormalizeValue(x, st) ==
    IF x = NaN \/ st.mean.den = 0 THEN NaNValue
    ELSE LET num == st.mean.den * x - st.mean.num
         IN  IF st.std.rad = 0
             THEN IF num = 0 THEN NaNValue
                  ELSE IF num > 0 THEN Inf(1) ELSE Inf(-1)
             ELSE Fin(num, st.std.rad)

\* lines 272-280 and 416-424 for one split
NormalizeSplit(trajs, stats) ==
    [i \in 1..Len(trajs) |-> [k \in 1..Len(trajs[i]) |->
        [c \in 1..Len(trajs[i][k]) |-> NormalizeValue(trajs[i][k][c], stats[c])]]]

RawSplit(trajs) ==
    [i \in 1..Len(trajs) |-> [k \in 1..Len(trajs[i]) |->
        [c \in 1..Len(trajs[i][k]) |-> Raw(trajs[i][k][c])]]]

\* y * train_std + train_mean, as num / den; q is FALSE when it is no number
Denormalize(y, st) ==
    IF y.k # "fin" \/ st.mean.den = 0 THEN [q |-> FALSE, num |-> 0, den |-> 1]
    ELSE IF y.rad = st.std.rad
    THEN [q |-> TRUE, num |-> y.num + st.mean.num, den |-> st.mean.den]
    ELSE [q |-> FALSE, num |-> 0, den |-> 1]

\* observe_steps of the tree data set: the last timestep is left to predict
TreeObserveSteps == DataT - 1

\* lines 360-361 over the feature dicts of sine, mfred and nrel (lines 187,
\* 128, 153): the channels of the available forecasts, <<>> standing for None
TreeAvailFeature(name, add_external_feature) ==
    IF ~add_external_feature \/ name = "sine" THEN <<>>
    ELSE IF name = "mfred" THEN <<2>>
    ELSE <<2, 3>>

NotNaNValue(v) == v.k # "nan"

\* collate_fn (lines 76-104) on the first batch of a split, for the
\* available forecasts: without the feature every sample hands out a scalar
\* NaN; the values that are no NaN are regrouped per sample, and a batch
\* left with no value carries None
TreeForecasts(batch, avail) ==
    IF avail = <<>> THEN [ok |-> TRUE, none |-> TRUE, rows |-> <<>>]
    ELSE LET B == Len(batch)
             L == DataT - TreeObserveSteps
             C == Len(avail)
             flat == [p \in 1..(B * L * C) |->
                         batch[((p - 1) \div (L * C)) + 1]
                              [TreeObserveSteps + (((p - 1) \div C) % L) + 1]
                              [avail[((p - 1) % C) + 1]]]
         IN  CHOOSE r \in
                 {IF Len(kept) % (B * C) # 0
                  THEN [ok |-> FALSE, none |-> FALSE, rows |-> <<>>]
                  ELSE IF Len(kept) = 0
                  THEN [ok |-> TRUE, none |-> TRUE, rows |-> <<>>]
                  ELSE [ok |-> TRUE, none |-> FALSE,
                        rows |-> [j \in 1..B |->
                                     SubSeq(kept, (j - 1) * (Len(kept) \div B) + 1,
                                            j * (Len(kept) \div B))]] :
                      kept \in {SelectSeq(flat, NotNaNValue)}} : TRUE

\* observed_data.flatten(1) and data_to_predict.flatten(1) of a batch:
\* hist_feature and fcst_feature are channel 0
TreeObserved(batch) ==
    [j \in 1..Len(batch) |-> [k \in 1..TreeObserveSteps |-> batch[j][k][1]]]
TreeTargets(batch) ==
    [j \in 1..Len(batch) |->
        [k \in 1..(DataT - TreeObserveSteps) |-> batch[j][TreeObserveSteps + k][1]]]

NoMatrices ==
    [x_train |-> <<>>, y_train |-> <<>>, x_val |-> <<>>, y_val |-> <<>>,
     x_test |-> <<>>, y_test |-> <<>>]

\* lines 431-486: the loaders with batch_size = len(train_trajectories)
\* (which DataLoader rejects when it is 0), the first batch of each (a
\* loader over no trajectory has none), then x = concat(observed_data
\* .flatten(1), available_forecasts.flatten(1)) and y = data_to_predict
\* .flatten(1) of each split; None has no flatten
generate_tree_data_set_matrices(train, val, test, avail) ==
    IF Len(train) = 0 THEN [ok |-> FALSE, exc |-> "ValueError", m |-> NoMatrices]
    ELSE CHOOSE r \in
        {IF ~ft.ok THEN [ok |-> FALSE, exc |-> "RuntimeError", m |-> NoMatrices]
         ELSE IF Len(val) = 0
         THEN [ok |-> FALSE, exc |-> "StopIteration", m |-> NoMatrices]
         ELSE IF ~fv.ok THEN [ok |-> FALSE, exc |-> "RuntimeError", m |-> NoMatrices]
         ELSE IF Len(test) = 0
         THEN [ok |-> FALSE, exc |-> "StopIteration", m |-> NoMatrices]
         ELSE IF ~fe.ok THEN [ok |-> FALSE, exc |-> "RuntimeError", m |-> NoMatrices]
         ELSE IF ft.none \/ fv.none \/ fe.none
         THEN [ok |-> FALSE, exc |-> "AttributeError", m |-> NoMatrices]
         ELSE [ok |-> TRUE, exc |-> "",
               m |-> [x_train |-> [j \in 1..Len(train) |->
                                      TreeObserved(train)[j] \o ft.rows[j]],
                      y_train |-> TreeTargets(train),
                      x_val |-> [j \in 1..Len(bv) |-> TreeObserved(bv)[j] \o fv.rows[j]],
                      y_val |-> TreeTargets(bv),
                      x_test |-> [j \in 1..Len(be) |-> TreeObserved(be)[j] \o fe.rows[j]],
                      y_test |-> TreeTargets(be)]] :
             bv \in {SubSeq(val, 1, Min(Len(train), Len(val)))},
             be \in {SubSeq(test, 1, Min(Len(train), Len(test)))},
             ft \in {TreeForecasts(train, avail)},
             fv \in {IF Len(val) = 0 THEN TreeForecasts(<<>>, <<>>)
                     ELSE TreeForecasts(SubSeq(val, 1, Min(Len(train), Len(val))), avail)},
             fe \in {IF Len(test) = 0 THEN TreeForecasts(<<>>, <<>>)
                     ELSE TreeForecasts(SubSeq(test, 1, Min(Len(train), Len(test))),
                                        avail)}} : TRUE

\* the batches of a DataLoader(shuffle=False): the trajectories in the order
\* of the dataset, batch_size at a time
LoaderBatches(ids, batch_size) ==
    [j \in 1..((Len(ids) + batch_size - 1) \div batch_size) |->
        SubSeq(ids, (j - 1) * batch_size + 1, Min(j * batch_size, Len(ids)))]

InitData ==
    /\ \E fn \in {"generate_data_set", "generate_tree_data_set"},
          name \in DatasetNames, N \in (0..MaxN) \cup {ScenarioN},
          ood \in BOOLEAN, ext \in BOOLEAN, normalize \in BOOLEAN,
          kind \in SeriesKinds :
          /\ (N = ScenarioN => kind = "ramp")
          /\ ds = [pc |-> "call", fn |-> fn, name |-> name, N |-> N,
                   test_set_out_of_distribution |-> ood,
                   add_external_feature |-> ext, seeded |-> FALSE,
                   trajectories |-> <<>>, split |-> FALSE, train |-> <<>>,
                   val |-> <<>>, test |-> <<>>, loaders |-> FALSE, exc |-> "",
                   normalize |-> normalize, kind |-> kind,
                   batch_size |-> IF N = ScenarioN THEN ExampleBatchSize ELSE 2,
                   train_trajectories |-> <<>>, val_trajectories |-> <<>>,
                   test_trajectories |-> <<>>, stats |-> <<>>,
                   shuffles |-> 0, epoch |-> 0, tree |-> NoMatrices,
                   served |-> [train |-> <<>>, val |-> <<>>, test |-> <<>>]]
    /\ model = NoModel /\ nfe = 0 /\ callsSince = 0 /\ res = NoRes
    /\ ExpIdle
    /\ LoaderIdle /\ SineIdle /\ WrapperIdle

\* lines 211-227 and 341-358: setup_seed, then the data set of that name
LoadDataset ==
    /\ ds.pc = "call"
    /\ LET r == IF ds.fn = "generate_data_set"
                THEN generate_data_set_load(ds.name, ds.N)
                ELSE generate_tree_data_set_load(ds.name, ds.N)
       IN  ds' = IF r.ok
                 THEN [ds EXCEPT !.pc = "split", !.seeded = TRUE,
                                 !.trajectories = r.trajectories]
                 ELSE [ds EXCEPT !.pc = "raised", !.seeded = TRUE, !.exc = r.exc]
    /\ UNCHANGED <<benchVars, expVars, pipeVars>>

\* lines 244-262 and 375-403
Split ==
    /\ ds.pc = "split"
    /\ \E traj_index \in Perms(Len(ds.trajectories)) :
          LET sp == SplitOf(ds.trajectories, ds.test_set_out_of_distribution,
                            traj_index)
          IN  ds' = [ds EXCEPT !.pc = "normalize", !.split = TRUE,
                               !.train = sp.train, !.val = sp.val,
                               !.test = sp.test]
    /\ UNCHANGED <<benchVars, expVars, pipeVars>>

\* the values of the trajectories of a split
ValuesOf(ids) == [j \in 1..Len(ids) |-> RawTraj(ds.kind, Channels(ds.name), ids[j])]

\* lines 264-283 and 405-427; reshape((len, -1, dim)) cannot tell the size
\* of the second dimension of a split of no trajectory
Normalize ==
    /\ ds.pc = "normalize"
    /\ \E train_trajectories \in {ValuesOf(ds.train)},
          val_trajectories \in {ValuesOf(ds.val)},
          test_trajectories \in {ValuesOf(ds.test)} :
          \E stats \in {generate_data_set_stats(train_trajectories, val_trajectories,
                                                test_trajectories, Channels(ds.name))} :
             ds' = IF ~ds.normalize
                   THEN [ds EXCEPT !.pc = "shuffle", !.stats = NoStats,
                                   !.train_trajectories = RawSplit(train_trajectories),
                                   !.val_trajectories = RawSplit(val_trajectories),
                                   !.test_trajectories = RawSplit(test_trajectories)]
                   ELSE IF Len(ds.train) = 0 \/ Len(ds.val) = 0 \/ Len(ds.test) = 0
                   THEN [ds EXCEPT !.pc = "raised", !.exc = "RuntimeError"]
                   ELSE [ds EXCEPT !.pc = "shuffle", !.stats = stats,
                                   !.train_trajectories =
                                       NormalizeSplit(train_trajectories, stats),
                                   !.val_trajectories =
                                       NormalizeSplit(val_trajectories, stats),
                                   !.test_trajectories =
                                       NormalizeSplit(test_trajectories, stats)]
    /\ UNCHANGED <<benchVars, expVars, pipeVars>>

\* lines 284-285 and 428-429: the training trajectories are permuted
ShuffleTrain ==
    /\ ds.pc = "shuffle"
    /\ \E rand_idx \in Perms(Len(ds.train)) :
          ds' = [ds EXCEPT !.pc = "loaders", !.train = Take(ds.train, rand_idx),
                           !.train_trajectories = Take(ds.train_trajectories, rand_idx),
                           !.shuffles = @ + 1]
    /\ UNCHANGED <<benchVars, expVars, pipeVars>>

\* lines 286-317: the loaders, and the first training batch for the shapes;
\* a loader over no trajectories has no first batch
BuildLoaders ==
    /\ ds.pc = "loaders"
    /\ ds.fn = "generate_data_set"
    /\ ds' = IF Len(ds.train) = 0
             THEN [ds EXCEPT !.pc = "raised", !.exc = "StopIteration"]
             ELSE [ds EXCEPT !.pc = "returned", !.loaders = TRUE]
    /\ UNCHANGED <<benchVars, expVars, pipeVars>>

\* one iteration over dltrain, dlval and dltest (lines 286-301: each a
\* DataLoader with shuffle=False, which serves its dataset in order)
LoaderEpoch ==
    /\ ds.pc = "returned"
    /\ ds.fn = "generate_data_set"
    /\ ds.epoch < MaxEpochs
    /\ ds' = [ds EXCEPT !.epoch = @ + 1,
                        !.served = [train |-> LoaderBatches(ds.train, ds.batch_size),
                                    val |-> LoaderBatches(ds.val, ds.batch_size),
                                    test |-> LoaderBatches(ds.test, ds.batch_size)]]
    /\ UNCHANGED <<benchVars, expVars, pipeVars>>

\* lines 431-501: one batch per split, batch_size = len(train_trajectories),
\* then the feature matrices from the observed window and the available
\* forecasts of each batch
BuildTreeMatrices ==
    /\ ds.pc = "loaders"
    /\ ds.fn = "generate_tree_data_set"
    /\ \E r \in {generate_tree_data_set_matrices(
                      ds.train_trajectories, ds.val_trajectories,
                      ds.test_trajectories,
                      TreeAvailFeature(ds.name, ds.add_external_feature))} :
          ds' = IF r.ok
                THEN [ds EXCEPT !.pc = "returned", !.loaders = TRUE, !.tree = r.m]
                ELSE [ds EXCEPT !.pc = "raised", !.exc = r.exc]
    /\ UNCHANGED <<benchVars, expVars, pipeVars>>

NextData ==
    \/ LoadDataset
    \/ Split
    \/ Normalize
    \/ ShuffleTrain
    \/ BuildLoaders
    \/ LoaderEpoch
    \/ BuildTreeMatrices

SpecData == InitData /\ [][NextData]_vars

\* C8: a data set name other than nrel, sine, mfred makes generate_data_set
\* and generate_tree_data_set raise ValueError at once: nothing is loaded,
\* split or handed to a loader, and no other data set stands in.
C8_UnknownDatasetRaises ==
    (ds.pc \notin {"off", "call"} /\ ds.name \notin KnownDatasets) =>
        /\ ds.pc = "raised"
        /\ ds.exc = "ValueError"
        /\ ds.trajectories = <<>>
        /\ ~ds.split
        /\ ds.train = <<>> /\ ds.val = <<>> /\ ds.test = <<>>
        /\ ~ds.loaders

\* generate_tree_data_set called with a name it does not implement
C8_Witness ==
    /\ ds.pc = "raised"
    /\ ds.fn = "generate_tree_data_set"
    /\ ds.name = "gef"
    /\ ds.N = ScenarioN

\* C10: the chronological split of generate_data_set puts the first
\* floor(0.8 N) trajectories in train, the next floor(0.9 N) - floor(0.8 N)
\* in validation and the rest in test (800/100/100 of 1000), each trajectory
\* in exactly one split and the splits in the original order.
C10_ChronologicalSplit ==
    (ds.pc # "off" /\ ds.fn = "generate_data_set" /\ ds.split
        /\ ds.test_set_out_of_distribution) =>
        LET N == Len(ds.trajectories)
            a == (8 * N) \div 10
            b == (9 * N) \div 10
        IN  /\ Len(ds.train) = a /\ Range(ds.train) = 1..a
            /\ Len(ds.val) = b - a /\ Range(ds.val) = (a + 1)..b
            /\ Len(ds.test) = N - b /\ Range(ds.test) = (b + 1)..N
            /\ ds.val = SubSeq(ds.trajectories, a + 1, b)
            /\ ds.test = SubSeq(ds.trajectories, b + 1, N)
            /\ N = 1000 =>
                  (Len(ds.train) = 800 /\ Len(ds.val) = 100 /\ Len(ds.test) = 100)

\* 1000 trajectories split in order, the training ones shuffled afterwards
C10_Witness ==
    /\ ds.pc = "returned"
    /\ ds.fn = "generate_data_set"
    /\ ds.test_set_out_of_distribution
    /\ Len(ds.trajectories) = ScenarioN
    /\ Len(ds.train) = 800
    /\ ds.train # SubSeq(ds.trajectories, 1, 800)

(***************************************************************************)
(* torchlaplace/dataset.py: TimeSeriesDataset and collate_fn               *)
(* A data tensor (N, L, C) is a sequence of trajectories, each a sequence  *)
(* of timesteps, each a sequence of channel values.  A time tensor is a    *)
(* record of its shape and its values.  avg_pool1d is followed through the *)
(* sum of each block; the record's scale is the divisor that makes it the  *)
(* average.                                                                *)
(***************************************************************************)
Tensor(shape, data) == [shape |-> shape, data |-> data]

\* trajs[:, :, feature]: the channels of a timestep at the 0-based indices
SelectChannels(row, feature) == [j \in 1..Len(feature) |-> row[feature[j] + 1]]

\* a to-predict window that starts one step late
PredictWindow_skip(s, observe_steps) == PySliceFrom(s, observe_steps + 1)

\* lines 20 and 23: [:observe_steps] along the time axis
ObservedWindow(s, observe_steps) == PySliceTo(s, observe_steps)

\* lines 21, 22, 59: [observe_steps:] along the time axis
PredictWindow(s, observe_steps) == PySliceFrom(s, observe_steps)

RECURSIVE SumRows(_, _)
\* the channel-wise sum of some timesteps of C channels
SumRows(rows, C) ==
    IF rows = <<>> THEN Zeros(C)
    ELSE LET rest == SumRows(Tail(rows), C)
         IN  [c \in 1..C |-> Head(rows)[c] + rest[c]]

\* torch.nn.functional.avg_pool1d(x, k, k) along the time axis of one
\* trajectory: floor(L / k) blocks of k timesteps, the remainder dropped
\* (the values are the block sums, k times the averages)
avg_pool1d(rows, k, C) ==
    [j \in 1..(Len(rows) \div k) |-> SumRows(SubSeq(rows, (j - 1) * k + 1, j * k), C)]

\* avg_pool1d rejects an input it cannot make one block of
PoolFails(L, k) == L < k

\* lines 27, 40-44 (and 28, 46-49): (1, L) -> (1, L, 1) -> (1, 1, L) -> pooled
\* (1, 1, L') -> (1, L', 1) -> squeeze() -> unsqueeze(0); squeeze() removes
\* every dimension of size 1, so one pooled step is left without dimensions
PoolTime(tp, k) ==
    LET pooled == avg_pool1d([i \in 1..Len(tp.data) |-> <<tp.data[i]>>], k, 1)
        flat == [j \in 1..Len(pooled) |-> pooled[j][1]]
    IN  IF Len(pooled) = 1
        THEN Tensor(<<1>>, flat)
        ELSE Tensor(<<1, Len(pooled)>>, flat)

\* lines 16-17: a time tensor of one dimension gets a leading one
Unsqueeze0IfFlat(time_steps) ==
    IF Len(time_steps.shape) < 2
    THEN Tensor(<<1>> \o time_steps.shape, time_steps.data)
    ELSE time_steps

NoDataset ==
    [ok |-> TRUE, exc |-> "", observed_data |-> <<>>, data_to_predict |-> <<>>,
     tp_to_predict |-> Tensor(<<>>, <<>>), observed_tp |-> Tensor(<<>>, <<>>),
     scale |-> 1, avail_fcst |-> FALSE, avail_channels |-> 0,
     available_forecasts |-> <<>>]

\* TimeSeriesDataset.__init__, lines 14-60; avail_none stands for
\* avail_fcst_feature is None
TimeSeriesDataset_init(trajs, time_steps, observe_steps, avg_terms, hist_feature, fcst_feature, avail_none, avail_fcst_feature) ==
    LET ts == Unsqueeze0IfFlat(time_steps)
        observed_data ==
            [i \in 1..Len(trajs) |->
                [k \in 1..Len(ObservedWindow(trajs[i], observe_steps)) |->
                    SelectChannels(trajs[i][k], hist_feature)]]
        data_to_predict ==
            [i \in 1..Len(trajs) |->
                LET w == PredictWindow(trajs[i], observe_steps)
                IN  [k \in 1..Len(w) |-> SelectChannels(w[k], fcst_feature)]]
        tp_to_predict ==
            Tensor(<<1, Len(PredictWindow(ts.data, observe_steps))>>,
                   PredictWindow(ts.data, observe_steps))
        observed_tp ==
            Tensor(<<1, Len(ObservedWindow(ts.data, observe_steps))>>,
                   ObservedWindow(ts.data, observe_steps))
        available_forecasts ==
            IF avail_none THEN <<>>
            ELSE [i \in 1..Len(trajs) |->
                     LET w == PredictWindow(trajs[i], observe_steps)
                     IN  [k \in 1..Len(w) |-> SelectChannels(w[k], avail_fcst_feature)]]
    IN  IF avg_terms > 1
        THEN IF \/ PoolFails(Len(observed_tp.data), avg_terms)
                \/ PoolFails(Len(tp_to_predict.data), avg_terms)
             THEN [NoDataset EXCEPT !.ok = FALSE, !.exc = "RuntimeError"]
             ELSE [NoDataset EXCEPT
                      !.observed_data =
                          [i \in 1..Len(trajs) |->
                              avg_pool1d(observed_data[i], avg_terms, Len(hist_feature))],
                      !.data_to_predict =
                          [i \in 1..Len(trajs) |->
                              avg_pool1d(data_to_predict[i], avg_terms, Len(fcst_feature))],
                      !.tp_to_predict = PoolTime(tp_to_predict, avg_terms),
                      !.observed_tp = PoolTime(observed_tp, avg_terms),
                      !.scale = avg_terms,
                      !.avail_fcst = ~avail_none,
                 !.avail_channels = Len(avail_fcst_feature),
                      !.avail_channels = Len(avail_fcst_feature),
                      !.available_forecasts = available_forecasts]
        ELSE [NoDataset EXCEPT
                 !.observed_data = observed_data,
                 !.data_to_predict = data_to_predict,
                 !.tp_to_predict = tp_to_predict,
                 !.observed_tp = observed_tp,
                 !.avail_fcst = ~avail_none,
                 !.avail_channels = Len(avail_fcst_feature),
                 !.available_forecasts = available_forecasts]

\* TimeSeriesDataset.__len__, line 63
TimeSeriesDataset_len(d) == Len(d.observed_data)

\* TimeSeriesDataset.__getitem__, lines 65-73 (index is 1-based here); a
\* dataset without available forecasts hands out a scalar NaN
TimeSeriesDataset_getitem(d, index) ==
    [observed_data |-> d.observed_data[index],
     data_to_predict |-> d.data_to_predict[index],
     scalar |-> ~d.avail_fcst,
     channels |-> d.avail_channels,
     available_forecasts |->
         IF d.avail_fcst THEN d.available_forecasts[index] ELSE <<>>,
     tp_to_predict |-> d.tp_to_predict,
     observed_tp |-> d.observed_tp]

\* the values of a (L, C) tensor in row-major order
FlattenRows(rows, C) ==
    [p \in 1..(Len(rows) * C) |-> rows[((p - 1) \div C) + 1][((p - 1) % C) + 1]]

NotNaN(x) == x # NaN

\* tensor[torch.logical_not(torch.isnan(tensor))] of a flat tensor
DropNaN(flat) == SelectSeq(flat, NotNaN)

\* torch.stack(available_forecasts) in row-major order, and its last dimension:
\* (B, L, C) of the samples' (L, C) forecasts, or (B,) of their scalar NaNs
StackedForecasts(samples) ==
    IF samples[1].scalar
    THEN [flat |-> [b \in 1..Len(samples) |-> NaN], last |-> Len(samples)]
    ELSE LET L == Len(samples[1].available_forecasts)
             C == samples[1].channels
         IN  [flat |-> FlattenRows([b \in 1..Len(samples) |->
                                       FlattenRows(samples[b].available_forecasts, C)],
                                   L * C),
              last |-> C]

\* flat.reshape(B, -1, C) of a flat tensor whose size B * C divides
Reshape3(flat, B, C) ==
    LET k == Len(flat) \div (B * C)
    IN  [b \in 1..B |-> [j \in 1..k |-> [c \in 1..C |->
            flat[((b - 1) * k + (j - 1)) * C + c]]]]

\* collate_fn, lines 76-104
collate_fn(data) ==
    LET B == Len(data)
        st == StackedForecasts(data)
        kept == DropNaN(st.flat)
        C == st.last
    IN  IF Len(kept) % (B * C) # 0
        THEN [ok |-> FALSE, exc |-> "RuntimeError",
              observed_data |-> <<>>, data_to_predict |-> <<>>,
              none |-> TRUE, available_forecasts |-> <<>>,
              observed_tp |-> data[1].observed_tp,
              tp_to_predict |-> data[1].tp_to_predict, mode |-> "extrap"]
        ELSE [ok |-> TRUE, exc |-> "",
              observed_data |-> [b \in 1..B |-> data[b].observed_data],
              data_to_predict |-> [b \in 1..B |-> data[b].data_to_predict],
              none |-> Len(kept) = 0,
              available_forecasts |->
                  IF Len(kept) = 0 THEN <<>> ELSE Reshape3(kept, B, C),
              observed_tp |-> data[1].observed_tp,
              tp_to_predict |-> data[1].tp_to_predict, mode |-> "extrap"]

(***************************************************************************)
(* TimeSeriesDataset and collate_fn as a state machine: a dataset is built *)
(* over a tensor of trajectories, then read through the loader             *)
(***************************************************************************)
MaxT == 4          \* timesteps of a trajectory: 1..MaxT, and ScenarioT
MaxSamples == 2    \* trajectories of a dataset
MaxAvg == 3        \* avg_terms ranges over 1..MaxAvg
ScenarioT == 200           \* the trajectory length of the windowing scenario
ScenarioObserveSteps == 100

\* the value of trajectory i at timestep k in channel c (c = 0 is the series)
Cell(i, k, c) == (i * 1000 + k) * 10 + c

\* where the covariate channels (c >= 1) hold the placeholder: nowhere; at
\* every other step of every sample (a coarser resolution); all over the
\* first sample; at every other step of the first covariate only; at one
\* step of one sample
NaNPatterns == {"none", "stride", "sample", "channel", "single"}

NaNAt(pattern, i, k, c, T) ==
    /\ c >= 1
    /\ \/ pattern = "stride" /\ k % 2 = 1
       \/ pattern = "sample" /\ i = 1
       \/ pattern = "channel" /\ c = 1 /\ k % 2 = 1
       \/ pattern = "single" /\ i = 1 /\ k = T /\ c = 1

\* a (N, T, C) tensor of trajectories
Trajs(N, T, C, pattern) ==
    [i \in 1..N |-> [k \in 1..T |-> [c1 \in 1..C |->
        IF NaNAt(pattern, i, k, c1 - 1, T) THEN NaN ELSE Cell(i, k, c1 - 1)]]]

\* torch.arange(T) (lines 115, 140), as (1, T) or before the unsqueeze
TimeSteps(T, flat) ==
    IF flat THEN Tensor(<<T>>, [k \in 1..T |-> k - 1])
    ELSE Tensor(<<1, T>>, [k \in 1..T |-> k - 1])

\* avail_fcst_feature of sine, mfred, nrel (lines 187, 128, 153)
AvailFeatures == {<<>>, <<1>>, <<1, 2>>}

NoCall == [op |-> "none", index |-> 0, batch_size |-> 0, n |-> 0,
           sample |-> <<>>, batch |-> <<>>]

InitLoader ==
    /\ \E T \in (1..MaxT) \cup {ScenarioT}, N \in 1..MaxSamples,
          avg_terms \in 1..MaxAvg, avail \in AvailFeatures,
          pattern \in NaNPatterns, flat \in BOOLEAN :
          \E observe_steps \in IF T = ScenarioT THEN {ScenarioObserveSteps} ELSE 0..T :
             /\ (T = ScenarioT => N = 1 /\ pattern = "none" /\ ~flat)
             /\ (avail = <<>> => pattern = "none")
             /\ tsd = [pc |-> "new",
                       trajs |-> Trajs(N, T, 1 + Len(avail), pattern),
                       time_steps |-> TimeSteps(T, flat),
                       observe_steps |-> observe_steps, avg_terms |-> avg_terms,
                       avail_none |-> avail = <<>>, avail_fcst_feature |-> avail,
                       obj |-> NoDataset, call |-> NoCall]
    /\ model = NoModel /\ nfe = 0 /\ callsSince = 0 /\ res = NoRes
    /\ ExpIdle /\ DataIdle /\ SineIdle /\ WrapperIdle

\* TimeSeriesDataset(trajs, t, observe_steps, avg_terms, **feature)
DatasetInit ==
    /\ tsd.pc = "new"
    /\ LET d == TimeSeriesDataset_init(tsd.trajs, tsd.time_steps, tsd.observe_steps,
                                       tsd.avg_terms, <<0>>, <<0>>,
                                       tsd.avail_none, tsd.avail_fcst_feature)
       IN  tsd' = [tsd EXCEPT !.pc = IF d.ok THEN "constructed" ELSE "raised",
                              !.obj = d]
    /\ UNCHANGED <<benchVars, expVars, dataVars, sn, wr>>

\* len(dataset)
DatasetLen ==
    /\ tsd.pc = "constructed"
    /\ tsd' = [tsd EXCEPT !.call = [NoCall EXCEPT !.op = "len",
                                       !.n = TimeSeriesDataset_len(tsd.obj)]]
    /\ UNCHANGED <<benchVars, expVars, dataVars, sn, wr>>

\* dataset[index]
DatasetGetItem ==
    /\ tsd.pc = "constructed"
    /\ \E index \in 1..TimeSeriesDataset_len(tsd.obj) :
          tsd' = [tsd EXCEPT !.call = [NoCall EXCEPT !.op = "getitem",
                                          !.index = index,
                                          !.sample = TimeSeriesDataset_getitem(tsd.obj, index)]]
    /\ UNCHANGED <<benchVars, expVars, dataVars, sn, wr>>

\* one batch of DataLoader(dataset, batch_size, shuffle=False, collate_fn):
\* the samples of batch_size consecutive indices (fewer in the last batch)
LoaderBatch ==
    /\ tsd.pc = "constructed"
    /\ \E batch_size \in 1..MaxSamples, first \in 1..TimeSeriesDataset_len(tsd.obj) :
          /\ (first - 1) % batch_size = 0
          /\ LET last == Min(first + batch_size - 1, TimeSeriesDataset_len(tsd.obj))
                 data == [j \in 1..(last - first + 1) |->
                             TimeSeriesDataset_getitem(tsd.obj, first + j - 1)]
             IN  tsd' = [tsd EXCEPT !.call = [NoCall EXCEPT !.op = "batch",
                                                 !.index = first,
                                                 !.batch_size = batch_size,
                                                 !.batch = collate_fn(data)]]
    /\ UNCHANGED <<benchVars, expVars, dataVars, sn, wr>>

NextLoader ==
    \/ DatasetInit
    \/ DatasetLen
    \/ DatasetGetItem
    \/ LoaderBatch

SpecLoader == InitLoader /\ [][NextLoader]_vars

(***************************************************************************)
(* Properties of TimeSeriesDataset and collate_fn, checked under SpecLoader *)
(***************************************************************************)
\* the series (channel 0) of trajectory i over all its timesteps
SeriesOf(i) == [k \in 1..Len(tsd.trajs[i]) |-> <<tsd.trajs[i][k][1]>>]

\* C11: with avg_terms = 1 every trajectory of length T is split at
\* observe_steps: the observed data and times are the first observe_steps
\* timesteps, the data and times to predict the other T - observe_steps, so
\* that both together are the trajectory again, each timestep once (100 and
\* 100 timesteps for T = 200, observe_steps = 100).
C11_SplitAtObserveSteps ==
    (tsd.pc = "constructed" /\ tsd.avg_terms = 1) =>
        LET T == Len(tsd.time_steps.data)
            d == tsd.obj
        IN  /\ \A i \in 1..Len(tsd.trajs) :
                  /\ Len(d.observed_data[i]) = tsd.observe_steps
                  /\ Len(d.data_to_predict[i]) = T - tsd.observe_steps
                  /\ d.observed_data[i] \o d.data_to_predict[i] = SeriesOf(i)
            /\ d.observed_tp.shape = <<1, tsd.observe_steps>>
            /\ d.tp_to_predict.shape = <<1, T - tsd.observe_steps>>
            /\ d.observed_tp.data \o d.tp_to_predict.data = tsd.time_steps.data
            /\ (T = 200 /\ tsd.observe_steps = 100) =>
                  /\ Len(d.observed_data[1]) = 100
                  /\ Len(d.data_to_predict[1]) = 100

\* a sample of the dataset over a trajectory of 200 steps observed for 100
C11_Witness ==
    /\ tsd.pc = "constructed"
    /\ tsd.avg_terms = 1
    /\ Len(tsd.time_steps.data) = ScenarioT
    /\ tsd.observe_steps = ScenarioObserveSteps
    /\ tsd.call.op = "getitem"
    /\ Len(tsd.call.sample.observed_data) = 100
    /\ Len(tsd.call.sample.data_to_predict) = 100

\* the samples of the batch of the last call
BatchIndices ==
    LET n == TimeSeriesDataset_len(tsd.obj)
        last == Min(tsd.call.index + tsd.call.batch_size - 1, n)
    IN  [j \in 1..(last - tsd.call.index + 1) |-> tsd.call.index + j - 1]

\* the covariate values of a sample that are no placeholder, in their order
KnownForecasts(i) ==
    DropNaN(FlattenRows(tsd.obj.available_forecasts[i], tsd.obj.avail_channels))

\* C17: collate_fn stacks the observed and the target tensors of the samples
\* unchanged and in sample order; available_forecasts holds, sample by
\* sample, every covariate value that is no NaN placeholder, in its order and
\* in its own channel, and is None exactly when the batch has no such value.
C17_CollateKeepsCovariates ==
    tsd.call.op = "batch" =>
        LET b == tsd.call.batch
            idx == BatchIndices
            known == [j \in 1..Len(idx) |->
                         IF tsd.obj.avail_fcst THEN KnownForecasts(idx[j]) ELSE <<>>]
        IN  /\ b.ok
            /\ b.observed_data = [j \in 1..Len(idx) |-> tsd.obj.observed_data[idx[j]]]
            /\ b.data_to_predict = [j \in 1..Len(idx) |-> tsd.obj.data_to_predict[idx[j]]]
            /\ b.none <=> (\A j \in 1..Len(idx) : known[j] = <<>>)
            /\ ~b.none =>
                  \A j \in 1..Len(idx) :
                      /\ FlattenRows(b.available_forecasts[j], tsd.obj.avail_channels)
                             = known[j]
                      /\ \A r \in 1..Len(b.available_forecasts[j]) :
                            \A c \in 1..tsd.obj.avail_channels :
                                b.available_forecasts[j][r][c] % 10
                                    = tsd.avail_fcst_feature[c]

StrictlyIncreasing(s) == \A j \in 1..(Len(s) - 1) : s[j] < s[j + 1]

\* C19: with avg_terms = k > 1 each run of k timesteps of the observed prefix
\* and of the to-predict suffix is replaced by its average, data and
\* timestamps alike: data and times of a window have the same length
\* (floor(observe_steps / k), floor((T - observe_steps) / k)), the pooled
\* timestamps are strictly increasing, the time tensors are laid out
\* (1, length) for every length, 1 included, and the dataset has one sample
\* per trajectory.
C19_PooledWindows ==
    (tsd.pc = "constructed" /\ tsd.avg_terms > 1) =>
        LET T == Len(tsd.time_steps.data)
            k == tsd.avg_terms
            d == tsd.obj
            lo == tsd.observe_steps \div k
            lp == (T - tsd.observe_steps) \div k
        IN  /\ \A i \in 1..Len(tsd.trajs) :
                  /\ Len(d.observed_data[i]) = lo
                  /\ Len(d.data_to_predict[i]) = lp
                  /\ \A j \in 1..lo :
                        d.observed_data[i][j][1] =
                            SumSeq([m \in 1..k |-> tsd.trajs[i][(j - 1) * k + m][1]])
            /\ Len(d.observed_tp.data) = lo
            /\ Len(d.tp_to_predict.data) = lp
            /\ StrictlyIncreasing(d.observed_tp.data \o d.tp_to_predict.data)
            /\ d.observed_tp.shape = <<1, lo>>
            /\ d.tp_to_predict.shape = <<1, lp>>
            /\ TimeSeriesDataset_len(d) = Len(tsd.trajs)

(***************************************************************************)
(* Properties of the normalization and of the loaders, checked under       *)
(* SpecData                                                                *)
(***************************************************************************)
\* the normalization step of the call is done
AfterNormalize == ds.pc \in {"shuffle", "loaders", "returned"}

\* the values of channel c over the trajectories of a split, one after the
\* other, the placeholders left out
KnownValues(ids, c) ==
    DropNaN([p \in 1..(Len(ids) * DataT) |->
                RawCell(ds.kind, ids[((p - 1) \div DataT) + 1],
                        ((p - 1) % DataT) + 1, c)])

\* a split holds, value by value, (x - mean) / std for the statistics st
NormalizedWith(split, ids, st) ==
    \A j \in 1..Len(ids) : \A k \in 1..DataT : \A c \in 1..Channels(ds.name) :
        LET x == RawCell(ds.kind, ids[j], k, c)
            y == split[j][k][c]
        IN  /\ y.k = "fin" =>
                  /\ x # NaN
                  /\ y.num = st[c].mean.den * x - st[c].mean.num
                  /\ y.rad = st[c].std.rad
            /\ (x # NaN /\ st[c].mean.den # 0 /\ st[c].std.rad # 0) => y.k = "fin"

\* a split holds the values as they were loaded
PassedThrough(split, ids) ==
    \A j \in 1..Len(ids) : \A k \in 1..DataT : \A c \in 1..Channels(ds.name) :
        LET x == RawCell(ds.kind, ids[j], k, c)
        IN  split[j][k][c] = IF x = NaN THEN NaNValue ELSE Fin(x, 1)

\* C12: with normalize true the mean and the standard deviation of every
\* channel are those of the training split's values alone (NaN left out),
\* and train, validation and test all hold (x - train_mean) / train_std for
\* these statistics; with normalize false the three splits hold the loaded
\* values and the statistics are train_mean = 0, train_std = 1.
C12_TrainStatisticsForAllSplits ==
    AfterNormalize =>
        IF ds.normalize
        THEN /\ \A c \in 1..Channels(ds.name) :
                   \A xs \in {KnownValues(ds.train, c)} :
                      \A n \in {Len(xs)}, S \in {SumRange(xs, 1, Len(xs))},
                         Q \in {SumRange([p \in 1..Len(xs) |-> xs[p] * xs[p]], 1, Len(xs))} :
                         /\ ds.stats[c].mean = [num |-> S, den |-> n]
                         /\ ds.stats[c].std = [rad |-> n * Q - S * S, den |-> n]
             /\ NormalizedWith(ds.train_trajectories, ds.train, ds.stats)
             /\ NormalizedWith(ds.val_trajectories, ds.val, ds.stats)
             /\ NormalizedWith(ds.test_trajectories, ds.test, ds.stats)
        ELSE /\ PassedThrough(ds.train_trajectories, ds.train)
             /\ PassedThrough(ds.val_trajectories, ds.val)
             /\ PassedThrough(ds.test_trajectories, ds.test)
             /\ ds.stats = <<[mean |-> [num |-> 0, den |-> 1],
                             std |-> [rad |-> 1, den |-> 1]]>>

\* nrel with a covariate known at every other step, split at random and
\* normalized: a validation value away from the training mean
C12_Witness ==
    /\ ds.pc = "returned"
    /\ ds.normalize
    /\ ds.name = "nrel"
    /\ ds.kind = "gap"
    /\ ~ds.test_set_out_of_distribution
    /\ Len(ds.val) >= 1
    /\ ds.val_trajectories[1][1][2] = NaNValue
    /\ ds.val_trajectories[1][2][2].k = "fin"
    /\ ds.val_trajectories[1][2][2].num # 0

\* C13: for every training value x that is a number,
\* normalized(x) * train_std + train_mean is x again, in every channel of
\* every training split, one constant over the training split included.
C13_NormalizationRoundTrip ==
    (AfterNormalize /\ ds.normalize) =>
        \A j \in 1..Len(ds.train) : \A k \in 1..DataT : \A c \in 1..Channels(ds.name) :
            LET x == RawCell(ds.kind, ds.train[j], k, c)
                r == Denormalize(ds.train_trajectories[j][k][c], ds.stats[c])
            IN  x # NaN => (r.q /\ r.num = r.den * x)

\* C18: every iteration over the loaders serves training batches made from
\* freshly shuffled indices (one draw of the training order per epoch),
\* while the validation and test batches are the same, in the order of their
\* splits, in every epoch.
C18_TrainingBatchesRedrawnPerEpoch ==
    (ds.fn = "generate_data_set" /\ ds.pc = "returned" /\ ds.epoch >= 1) =>
        /\ ds.shuffles >= ds.epoch
        /\ ds.served.val = LoaderBatches(ds.val, ds.batch_size)
        /\ ds.served.test = LoaderBatches(ds.test, ds.batch_size)

(***************************************************************************)
(* torchlaplace/dataset.py: sine                                           *)
(***************************************************************************)
MaxTraj == 3       \* trajectories_to_sample ranges over 0..MaxTraj, and ScenarioTraj
MaxPi == 4         \* num_pi ranges over 0..MaxPi
ScenarioTraj == 10         \* the trajectories of the sine scenario
t_nsamples_ref == 1000     \* line 160

\* a length that follows the caller's t_nsamples
sine_t_nsamples_arg(t_nsamples, num_pi) == t_nsamples

\* line 161: int(t_nsamples_ref / 4 * num_pi), whatever t_nsamples was passed
sine_t_nsamples(t_nsamples, num_pi) == (t_nsamples_ref \div 4) * num_pi

\* lines 171-179: sampler(ti, x0) at the k-th time of trajectory i of n; the
\* value stands for the sample taken at the phase ti[k] + x0s[i], counted in
\* steps of pi / (250 (n - 1)) (of pi / 250 for n = 1)
sine_sample(i, k, n) ==
    IF n = 1 THEN k ELSE k * (n - 1) + (i - 1) * 16 * (t_nsamples_ref \div 4)

\* sine(double, trajectories_to_sample, t_nsamples, num_pi), lines 159-189
sine(double, trajectories_to_sample, t_nsamples, num_pi) ==
    LET T == sine_t_nsamples(t_nsamples, num_pi) IN
    IF T = 0
    THEN \* line 164: t_end / t_nsamples
         [ok |-> FALSE, exc |-> "ZeroDivisionError", trajectories |-> <<>>,
          ti |-> Tensor(<<>>, <<>>)]
    ELSE IF trajectories_to_sample = 0
    THEN \* line 180: torch.stack of no tensor
         [ok |-> FALSE, exc |-> "RuntimeError", trajectories |-> <<>>,
          ti |-> Tensor(<<>>, <<>>)]
    ELSE [ok |-> TRUE, exc |-> "",
          trajectories |->
              [i \in 1..trajectories_to_sample |->
                  [k \in 1..T |-> <<sine_sample(i, k, trajectories_to_sample)>>]],
          ti |-> Tensor(<<1, T>>, [k \in 1..T |-> k])]

InitSine ==
    /\ \E double \in BOOLEAN, n \in (0..MaxTraj) \cup {ScenarioTraj},
          t_nsamples \in {ScenarioT, 250, t_nsamples_ref}, num_pi \in 0..MaxPi :
          sn = [pc |-> "call", double |-> double, trajectories_to_sample |-> n,
                t_nsamples |-> t_nsamples, num_pi |-> num_pi, ok |-> TRUE,
                exc |-> "", trajectories |-> <<>>, ti |-> Tensor(<<>>, <<>>)]
    /\ model = NoModel /\ nfe = 0 /\ callsSince = 0 /\ res = NoRes
    /\ ExpIdle /\ DataIdle /\ LoaderIdle /\ WrapperIdle

\* the call of sine()
SineCall ==
    /\ sn.pc = "call"
    /\ \E r \in {sine(sn.double, sn.trajectories_to_sample, sn.t_nsamples, sn.num_pi)} :
          sn' = [sn EXCEPT !.pc = IF r.ok THEN "returned" ELSE "raised",
                           !.ok = r.ok, !.exc = r.exc,
                           !.trajectories = r.trajectories, !.ti = r.ti]
    /\ UNCHANGED <<benchVars, expVars, dataVars, tsd, wr>>

NextSine == SineCall

SpecSine == InitSine /\ [][NextSine]_vars

\* C14: sine(trajectories_to_sample = n, num_pi = p) returns trajectories of
\* shape (n, T, 1) and times of shape (1, T) with T = int(1000 / 4 * p),
\* (10, 1000, 1) for n = 10 and p = 4; T follows num_pi alone, not the
\* t_nsamples of the caller.
C14_SineShape ==
    sn.pc \in {"returned", "raised"} =>
        LET n == sn.trajectories_to_sample
            T == 250 * sn.num_pi
        IN  /\ (n >= 1 /\ sn.num_pi >= 1) => sn.pc = "returned"
            /\ sn.pc = "returned" =>
                  /\ Len(sn.trajectories) = n
                  /\ \A i \in 1..n :
                        /\ Len(sn.trajectories[i]) = T
                        /\ \A k \in 1..T : Len(sn.trajectories[i][k]) = 1
                  /\ sn.ti.shape = <<1, T>>
                  /\ Len(sn.ti.data) = T
                  /\ (n = 10 /\ sn.num_pi = 4) =>
                        (Len(sn.trajectories) = 10 /\ Len(sn.trajectories[1]) = 1000)

\* ten trajectories over four pi, asked for with t_nsamples = 200
C14_Witness ==
    /\ sn.pc = "returned"
    /\ sn.trajectories_to_sample = ScenarioTraj
    /\ sn.num_pi = 4
    /\ sn.t_nsamples = 200
    /\ Len(sn.trajectories[10]) = 1000
    /\ sn.ti.shape = <<1, 1000>>

(***************************************************************************)
(* benchmarks.py: the model wrappers GeneralNODE, GeneralPersistence and   *)
(* GeneralNeuralNetwork on the batches of a loader                         *)
(***************************************************************************)
MaxWindow == 2     \* timesteps of the observed window: 1..MaxWindow
PredictLens == {1, 2}   \* timesteps of the window to predict
MaxCalls == 2      \* calls on a wrapper between two reads of its counter

\* sample i of a loader: its observed window and its window to predict
SampleObserved(i, To) == [k \in 1..To |-> <<10 * i + k>>]
SampleToPredict(i, To, Tp) == [j \in 1..Tp |-> <<10 * i + To + j>>]

\* the data_dict collate_fn makes of the samples ids (lines 93-104); the
\* times to predict are evenly spaced
BatchOf(ids, To, Tp, mode) ==
    [observed_data |-> [b \in 1..Len(ids) |-> SampleObserved(ids[b], To)],
     data_to_predict |-> [b \in 1..Len(ids) |-> SampleToPredict(ids[b], To, Tp)],
     tp_to_predict |-> [j \in 1..Tp |-> 2 * (To + j)],
     mode |-> mode]

\* the batches of a loader over n samples
LoaderOf(n, batch_size, To, Tp, mode) ==
    LET chunks == LoaderBatches([i \in 1..n |-> i], batch_size)
    IN  [j \in 1..Len(chunks) |-> BatchOf(chunks[j], To, Tp, mode)]

\* GeneralNODE.__init__, lines 203-214: the wrapped model is a NODE
GeneralNODE_init(obs_dim, method, augment_dim, extrap) ==
    [NODE_init(obs_dim, method, augment_dim, extrap) EXCEPT !.cls = "GeneralNODE"]

\* self.model(batch["observed_data"], ...) of the three wrappers (lines 228,
\* 303, 375); an MLPNetwork is taken to be built for the window it is given
Wrapper_forward(m, batch, theta) ==
    IF m.cls = "GeneralNODE"
    THEN NODE_forward(m, batch.observed_data, <<batch.tp_to_predict>>, theta)
    ELSE IF m.cls = "GeneralPersistence"
    THEN Persistence_forward(m, batch.observed_data)
    ELSE Network_forward(m, batch.observed_data, theta)

\* the values of a (B, T, C) tensor
NumEl(x) == IF x = <<>> \/ x[1] = <<>> THEN 0 ELSE Len(x) * Len(x[1]) * Len(x[1][1])

\* MSELoss of the flattened tensors: sizes that differ are broadcast only
\* when one of them is 1
LossFails(preds, target) ==
    NumEl(preds) # NumEl(target) /\ NumEl(preds) # 1 /\ NumEl(target) # 1

RECURSIVE SquaredError(_, _)
\* the sum of the squared differences of two flat arrays of one length
SquaredError(y_true, y_pred) ==
    IF y_true = <<>> THEN 0
    ELSE (Head(y_true) - Head(y_pred)) * (Head(y_true) - Head(y_pred))
             + SquaredError(Tail(y_true), Tail(y_pred))

\* a tensor of one value broadcast to n values
Broadcast(flat, n) == IF Len(flat) = 1 THEN [j \in 1..n |-> flat[1]] ELSE flat

\* torch.nn.MSELoss() of the flattened tensors (lines 229-230): the mean of
\* the squared differences, kept as a fraction
MSELoss(preds, target) ==
    CHOOSE loss \in
        {[num |-> SquaredError(Broadcast(q, Len(p)), Broadcast(p, Len(q))),
          den |-> IF Len(p) >= Len(q) THEN Len(p) ELSE Len(q)] :
             p \in {Flatten(Flatten(preds))}, q \in {Flatten(Flatten(target))}} : TRUE

\* cum_loss += loss, on fractions
AddLoss(a, b) == [num |-> a.num * b.den + b.num * a.den, den |-> a.den * b.den]

\* what a call on a wrapper gave: ok or the exception, the values returned
\* and the invocations of the vector field it made
WResult(ok, exc, first, second, nevals) ==
    [ok |-> ok, exc |-> exc, first |-> first, second |-> second, nevals |-> nevals]

\* training_step, lines 227-230, 302-305, 374-377
Wrapper_training_step(m, batch, theta) ==
    LET r == Wrapper_forward(m, batch, theta)
    IN  IF ~r.ok THEN WResult(FALSE, r.exc, <<>>, <<>>, r.nevals)
        ELSE IF LossFails(r.out, batch.data_to_predict)
        THEN WResult(FALSE, "RuntimeError", <<>>, <<>>, r.nevals)
        ELSE WResult(TRUE, "", <<MSELoss(r.out, batch.data_to_predict)>>, <<>>,
                     r.nevals)

RECURSIVE Wrapper_get_loss(_, _, _)
\* the loop of _get_loss, lines 217-223, 292-298, 364-370: cum_loss of the
\* batches one after the other
Wrapper_get_loss(m, dl, theta) ==
    IF dl = <<>> THEN WResult(TRUE, "", <<[num |-> 0, den |-> 1]>>, <<>>, 0)
    ELSE CHOOSE g \in
        {IF ~r.ok THEN r
         ELSE CHOOSE h \in
             {IF ~rest.ok THEN [rest EXCEPT !.nevals = @ + r.nevals]
              ELSE WResult(TRUE, "", <<AddLoss(r.first[1], rest.first[1])>>, <<>>,
                           r.nevals + rest.nevals) :
                  rest \in {Wrapper_get_loss(m, Tail(dl), theta)}} : TRUE :
             r \in {Wrapper_training_step(m, Head(dl), theta)}} : TRUE

\* validation_step and test_step, lines 232-238, 307-315, 379-387, with the
\* end of _get_loss (lines 224-225): mse = cum_loss / cum_batches, which
\* divides by zero when the loader gave no batch; mse is returned twice
Wrapper_validation_step(m, dl, theta) ==
    IF dl = <<>> THEN WResult(FALSE, "ZeroDivisionError", <<>>, <<>>, 0)
    ELSE CHOOSE v \in
        {IF ~g.ok THEN g
         ELSE WResult(TRUE, "",
                      <<[num |-> g.first[1].num, den |-> g.first[1].den * Len(dl)]>>,
                      <<[num |-> g.first[1].num, den |-> g.first[1].den * Len(dl)]>>,
                      g.nevals) :
             g \in {Wrapper_get_loss(m, dl, theta)}} : TRUE

\* a ground truth that is the window to predict in every mode
predict_trajs_target_only(batch) == batch.data_to_predict

\* lines 253-259, 322-329, 394-401: the ground truth of one batch
predict_trajs(batch) ==
    IF batch.mode = "extrap"
    THEN [b \in 1..Len(batch.observed_data) |->
             batch.observed_data[b] \o batch.data_to_predict[b]]
    ELSE batch.data_to_predict

RECURSIVE Wrapper_predict_loop(_, _, _)
\* the loop of predict (lines 250-259): predictions and trajs of the batches
Wrapper_predict_loop(m, dl, theta) ==
    IF dl = <<>> THEN WResult(TRUE, "", <<>>, <<>>, 0)
    ELSE LET r == Wrapper_forward(m, Head(dl), theta)
         IN  IF ~r.ok THEN WResult(FALSE, r.exc, <<>>, <<>>, r.nevals)
             ELSE LET rest == Wrapper_predict_loop(m, Tail(dl), theta)
                  IN  IF ~rest.ok THEN [rest EXCEPT !.nevals = @ + r.nevals]
                      ELSE WResult(TRUE, "", r.out \o rest.first,
                                   predict_trajs(Head(dl)) \o rest.second,
                                   r.nevals + rest.nevals)

\* predict, lines 247-260 (the definition of lines 240-245 is replaced by
\* it), 317-330, 389-402; torch.cat of no tensor raises
Wrapper_predict(m, dl, theta) ==
    IF dl = <<>> THEN WResult(FALSE, "RuntimeError", <<>>, <<>>, 0)
    ELSE Wrapper_predict_loop(m, dl, theta)

RECURSIVE Wrapper_encode_loop(_, _)
\* the loop of encode (lines 264-265, 334-335, 406-407): self.model.encode
\* exists on NODE only; Persistence, LSTMNetwork and MLPNetwork have no
\* attribute of that name
Wrapper_encode_loop(m, dl) ==
    IF dl = <<>> THEN WResult(TRUE, "", <<>>, <<>>, 0)
    ELSE IF m.cls # "GeneralNODE"
    THEN WResult(FALSE, "AttributeError", <<>>, <<>>, 0)
    ELSE IF Len(Head(dl).observed_data[1]) = 0
    THEN WResult(FALSE, "IndexError", <<>>, <<>>, 0)
    ELSE LET rest == Wrapper_encode_loop(m, Tail(dl))
         IN  IF ~rest.ok THEN rest
             ELSE WResult(TRUE, "",
                          NODE_encode_x0(m.extrap, Head(dl).observed_data) \o rest.first,
                          <<>>, 0)

\* encode, lines 262-266, 332-336, 404-408
Wrapper_encode(m, dl) ==
    IF dl = <<>> THEN WResult(FALSE, "RuntimeError", <<>>, <<>>, 0)
    ELSE Wrapper_encode_loop(m, dl)

\* _get_and_reset_nfes, lines 268-272, 338-339, 410-411
Wrapper_get_and_reset_nfes(m, n) == IF m.cls = "GeneralNODE" THEN n ELSE 0

(***************************************************************************)
(* The wrappers as a state machine: the loaders of one data set are built, *)
(* a wrapper is constructed for them as example.py does (obs_dim of the    *)
(* data, out_timesteps of the window to predict), then its methods are     *)
(* called in any order                                                     *)
(***************************************************************************)
WrapperModes == {"extrap", "interp"}
\* trajectories of a loader: none, one batch, a full batch and one more
LoaderSizes == {0, 1, MaxBatch + 1}
\* the parameters the learned networks have after init_weights
WrapperTheta == 1

NoWrapperCall ==
    [op |-> "none", ok |-> TRUE, exc |-> "", first |-> <<>>, second |-> <<>>,
     ret |-> 0, nevals |-> 0, prev |-> "none", train_steps |-> 0, train_nfe |-> 0]

\* the calls made since the counter was last read
NoneSince == [prev |-> "none", train_steps |-> 0, train_nfe |-> 0]

InitWrapper ==
    /\ \E n \in LoaderSizes, To \in 1..MaxWindow, Tp \in PredictLens,
          mode \in WrapperModes :
          wr = [pc |-> "new", n |-> n, To |-> To, Tp |-> Tp, mode |-> mode,
                m |-> NoModel, theta |-> WrapperTheta, nfe |-> 0, calls |-> 0,
                since |-> NoneSince, call |-> NoWrapperCall]
    /\ model = NoModel /\ nfe = 0 /\ callsSince = 0 /\ res = NoRes
    /\ ExpIdle /\ DataIdle /\ LoaderIdle /\ SineIdle

WrapperLoader == LoaderOf(wr.n, MaxBatch, wr.To, wr.Tp, wr.mode)

WrapperBuilt(m) ==
    wr' = [wr EXCEPT !.pc = IF m.st = "constructed" THEN "ready" ELSE "raised",
                     !.m = m, !.nfe = OdeFunc_init_nfe]

WrapGeneralNODE ==
    /\ wr.pc = "new"
    /\ \E method \in SolverMethods, augment_dim \in 0..MaxAug, extrap \in {0, 1} :
          WrapperBuilt(GeneralNODE_init(1, method, augment_dim, extrap))
    /\ UNCHANGED <<benchVars, expVars, dataVars, tsd, sn>>

WrapGeneralPersistence ==
    /\ wr.pc = "new"
    /\ \E method \in PersistenceStrings :
          WrapperBuilt(GeneralPersistence_init(wr.Tp, method))
    /\ UNCHANGED <<benchVars, expVars, dataVars, tsd, sn>>

WrapGeneralNeuralNetwork ==
    /\ wr.pc = "new"
    /\ \E method \in NNMethodStrings :
          WrapperBuilt(GeneralNeuralNetwork_init(1, wr.Tp, method))
    /\ UNCHANGED <<benchVars, expVars, dataVars, tsd, sn>>

\* a call has run: the vector field has counted its invocations, whether
\* the call returned or raised
WrapperCalled(op, r) ==
    wr' = [wr EXCEPT
              !.nfe = @ + r.nevals,
              !.calls = @ + 1,
              !.since = [prev |-> op,
                         train_steps |-> IF op = "training_step"
                                         THEN wr.since.train_steps + 1
                                         ELSE wr.since.train_steps,
                         train_nfe |-> IF op = "training_step"
                                       THEN wr.since.train_nfe + r.nevals
                                       ELSE wr.since.train_nfe],
              !.call = [NoWrapperCall EXCEPT !.op = op, !.ok = r.ok,
                            !.exc = r.exc, !.first = r.first,
                            !.second = r.second, !.nevals = r.nevals]]

WrapperTrainingStep ==
    /\ wr.pc = "ready" /\ wr.calls < MaxCalls
    /\ \E dl \in {WrapperLoader} : \E j \in 1..Len(dl) :
          \E r \in {Wrapper_training_step(wr.m, dl[j], wr.theta)} :
              WrapperCalled("training_step", r)
    /\ UNCHANGED <<benchVars, expVars, dataVars, tsd, sn>>

WrapperValidationStep ==
    /\ wr.pc = "ready" /\ wr.calls < MaxCalls
    /\ \E r \in {Wrapper_validation_step(wr.m, WrapperLoader, wr.theta)} :
          WrapperCalled("validation_step", r)
    /\ UNCHANGED <<benchVars, expVars, dataVars, tsd, sn>>

WrapperTestStep ==
    /\ wr.pc = "ready" /\ wr.calls < MaxCalls
    /\ \E r \in {Wrapper_validation_step(wr.m, WrapperLoader, wr.theta)} :
          WrapperCalled("test_step", r)
    /\ UNCHANGED <<benchVars, expVars, dataVars, tsd, sn>>

WrapperPredict ==
    /\ wr.pc = "ready" /\ wr.calls < MaxCalls
    /\ \E r \in {Wrapper_predict(wr.m, WrapperLoader, wr.theta)} :
          WrapperCalled("predict", r)
    /\ UNCHANGED <<benchVars, expVars, dataVars, tsd, sn>>

WrapperEncode ==
    /\ wr.pc = "ready" /\ wr.calls < MaxCalls
    /\ \E r \in {Wrapper_encode(wr.m, WrapperLoader)} :
          WrapperCalled("encode", r)
    /\ UNCHANGED <<benchVars, expVars, dataVars, tsd, sn>>

\* the counter is read and, on a GeneralNODE, set back to 0
WrapperGetAndResetNfes ==
    /\ wr.pc = "ready"
    /\ wr' = [wr EXCEPT
                 !.nfe = IF wr.m.cls = "GeneralNODE" THEN 0 ELSE @,
                 !.calls = 0,
                 !.since = NoneSince,
                 !.call = [NoWrapperCall EXCEPT
                               !.op = "_get_and_reset_nfes",
                               !.ret = Wrapper_get_and_reset_nfes(wr.m, wr.nfe),
                               !.prev = wr.since.prev,
                               !.train_steps = wr.since.train_steps,
                               !.train_nfe = wr.since.train_nfe]]
    /\ UNCHANGED <<benchVars, expVars, dataVars, tsd, sn>>

(***************************************************************************)
(* example.py, lines 196-202: the test error of a trained wrapper          *)
(***************************************************************************)
\* a slice that takes the first P timesteps instead
test_rmse_slice_front(test_trajs, P) ==
    [b \in 1..Len(test_trajs) |-> PySliceTo(test_trajs[b], P)]

\* test_trajs[:, -test_preds.shape[1]:, :], lines 199-200; -0: is the whole axis
test_rmse_slice(test_trajs, P) ==
    [b \in 1..Len(test_trajs) |->
        IF P = 0 THEN test_trajs[b]
        ELSE PySliceFrom(test_trajs[b], Len(test_trajs[b]) - Min(P, Len(test_trajs[b])))]

\* sklearn's mean_squared_error of the flattened arrays (line 198): arrays of
\* different lengths, or empty ones, are rejected; the mean is kept as the
\* sum of squares and the number of values
mean_squared_error(y_true, y_pred) ==
    IF Len(y_true) # Len(y_pred) \/ Len(y_true) = 0
    THEN [ok |-> FALSE, sum |-> 0, count |-> 0]
    ELSE [ok |-> TRUE, sum |-> SquaredError(y_true, y_pred), count |-> Len(y_true)]

\* the (model_name, system) pairs of lines 113-170 that are wrappers of
\* benchmarks.py: GeneralNODE, GeneralNeuralNetwork with "lstm" and "mlp",
\* GeneralPersistence with "naive"
ExperimentModel(m) ==
    \/ m.cls = "GeneralNODE"
    \/ m.cls = "GeneralNeuralNetwork"
    \/ m.cls = "GeneralPersistence" /\ m.method = "naive"

\* lines 196-202: both loaders are predicted, then the ground truth of the
\* test loader is cut to the length of the predictions and compared
WrapperTestRmse ==
    /\ wr.pc = "ready" /\ wr.calls < MaxCalls
    /\ \E val \in {Wrapper_predict(wr.m, WrapperLoader, wr.theta)} :
          IF ~val.ok
          THEN WrapperCalled("test_rmse", val)
          ELSE \E test \in {Wrapper_predict(wr.m, WrapperLoader, wr.theta)} :
               \E y_true \in {test_rmse_slice(test.second, Len(test.first[1]))} :
               \E mse \in {mean_squared_error(Flatten(Flatten(y_true)),
                                              Flatten(Flatten(test.first)))} :
                  wr' = [wr EXCEPT
                            !.nfe = @ + val.nevals + test.nevals,
                            !.calls = @ + 1,
                            !.since = [@ EXCEPT !.prev = "test_rmse"],
                            !.call = [NoWrapperCall EXCEPT
                                      !.op = "test_rmse",
                                      !.ok = mse.ok,
                                      !.exc = IF mse.ok THEN "" ELSE "ValueError",
                                      !.first = test.first,
                                      !.second = y_true,
                                      !.ret = mse.sum,
                                      !.nevals = val.nevals + test.nevals]]
    /\ UNCHANGED <<benchVars, expVars, dataVars, tsd, sn>>

NextWrapper ==
    \/ WrapGeneralNODE
    \/ WrapGeneralPersistence
    \/ WrapGeneralNeuralNetwork
    \/ WrapperTrainingStep
    \/ WrapperValidationStep
    \/ WrapperTestStep
    \/ WrapperPredict
    \/ WrapperEncode
    \/ WrapperGetAndResetNfes
    \/ WrapperTestRmse

SpecWrapper == InitWrapper /\ [][NextWrapper]_vars

(***************************************************************************)
(* Properties of the wrappers                                              *)
(***************************************************************************)
\* the code NODE.encode gives trajectory i of the loader
CodeOf(i) == NODE_encode_x0(wr.m.extrap, <<SampleObserved(i, wr.To)>>)[1]

\* C15: encode(loader) on a loader of the data pipeline completes without
\* error on every wrapper (GeneralNODE, GeneralNeuralNetwork,
\* GeneralPersistence) and returns one code per trajectory of the loader, in
\* loader order.
C15_EncodeOnEveryWrapper ==
    (wr.pc = "ready" /\ wr.call.op = "encode" /\ wr.n >= 1) =>
        /\ wr.call.ok
        /\ Len(wr.call.first) = wr.n
        /\ \A i \in 1..wr.n : wr.call.first[i] = CodeOf(i)

\* the ground truth of trajectory i of the loader, by the mode tag
TruthOf(i) ==
    IF wr.mode = "extrap"
    THEN SampleObserved(i, wr.To) \o SampleToPredict(i, wr.To, wr.Tp)
    ELSE SampleToPredict(i, wr.To, wr.Tp)

\* what the wrapped model predicts for trajectory i of the loader alone
PredictionOf(i) ==
    Wrapper_forward(wr.m, BatchOf(<<i>>, wr.To, wr.Tp, wr.mode), wr.theta).out[1]

\* C16: a predict(loader) that returns gives a pair (predictions, ground
\* truth) with one row per trajectory of the loader, in loader order; the
\* ground truth of a row is the observed window followed by the window to
\* predict when the mode tag is "extrap", and the window to predict alone
\* for any other mode.
C16_PredictPairs ==
    (wr.pc = "ready" /\ wr.call.op = "predict" /\ wr.call.ok) =>
        /\ Len(wr.call.first) = wr.n
        /\ Len(wr.call.second) = wr.n
        /\ \A i \in 1..wr.n :
              /\ wr.call.first[i] = PredictionOf(i)
              /\ wr.call.second[i] = TruthOf(i)

\* a GeneralNODE has predicted a loader of two batches in mode "extrap"
C16_Witness ==
    /\ wr.pc = "ready" /\ wr.call.op = "predict" /\ wr.call.ok
    /\ wr.m.cls = "GeneralNODE" /\ wr.mode = "extrap"
    /\ wr.n = MaxBatch + 1 /\ wr.To = 2 /\ wr.Tp = 2
    /\ Len(wr.call.second[wr.n]) = 4
    /\ Len(wr.call.first[wr.n]) = 2

\* C20: the value _get_and_reset_nfes returns right after a training step,
\* the only training step since the previous read, is the number of
\* invocations of the vector field that training step made: invocations by
\* validation_step, test_step or predict on the same wrapper since the
\* previous read are not in it.
C20_TrainingNfeOfTheStepOnly ==
    (wr.pc = "ready" /\ wr.call.op = "_get_and_reset_nfes"
        /\ wr.call.prev = "training_step" /\ wr.call.train_steps = 1) =>
        wr.call.ret = wr.call.train_nfe

\* C22: the test error of a model of the experiment compares, for every
\* trajectory of the test loader, the prediction at each predicted timestep
\* with the ground truth of that trajectory at that timestep: the last P
\* timesteps of the reassembled ground truth, P the length of the
\* predictions, are the trajectory's window to predict.
C22_TestErrorAligned ==
    (wr.pc = "ready" /\ wr.call.op = "test_rmse" /\ wr.call.ok
        /\ ExperimentModel(wr.m)) =>
        /\ Len(wr.call.first) = wr.n /\ Len(wr.call.second) = wr.n
        /\ \A i \in 1..wr.n :
              /\ wr.call.second[i] = SampleToPredict(i, wr.To, wr.Tp)
              /\ Len(wr.call.first[i]) = wr.Tp
        /\ \A y_true \in {Flatten(Flatten([i \in 1..wr.n |->
                                  SampleToPredict(i, wr.To, wr.Tp)]))} :
           \A y_pred \in {Flatten(Flatten(wr.call.first))} :
              wr.call.ret = SquaredError(y_true, y_pred)

\* the test error of a GeneralNODE over two batches whose ground truth is
\* the observed window followed by the window to predict
C22_Witness ==
    /\ wr.pc = "ready" /\ wr.call.op = "test_rmse" /\ wr.call.ok
    /\ wr.m.cls = "GeneralNODE" /\ wr.mode = "extrap"
    /\ wr.n = MaxBatch + 1 /\ wr.To = 2 /\ wr.Tp = 2
    /\ Len(wr.call.second[wr.n]) = 2
    /\ wr.call.ret > 0

\* the squared errors of every predicted element of every trajectory of the
\* loader, and the number of those elements
LoaderSquaredError ==
    SquaredError(Flatten(Flatten([i \in 1..wr.n |-> SampleToPredict(i, wr.To, wr.Tp)])),
                 Flatten(Flatten([i \in 1..wr.n |-> PredictionOf(i)])))
LoaderElements == wr.n * wr.Tp

\* C23: validation_step and test_step of every wrapper are defined for
\* every loader, one of no trajectory included, and return two identical
\* values equal to the mean squared error over all predicted elements of
\* all trajectories of the loader, however the loader cuts them into
\* batches (a smaller last batch included).
C23_LossIsMeanOverLoader ==
    (wr.pc = "ready" /\ wr.call.op \in {"validation_step", "test_step"}) =>
        /\ wr.call.ok
        /\ wr.call.first = wr.call.second
        /\ wr.call.first[1].num * LoaderElements
               = LoaderSquaredError * wr.call.first[1].den

\* C24: for every known data set name and every add_external_feature (FALSE
\* included, where the batches carry no available forecasts),
\* generate_tree_data_set over splits that each hold a trajectory returns
\* feature matrices with one row per trajectory, the flattened observed
\* window followed by the flattened available forecasts when there are
\* any, and target matrices with one row per trajectory; it does not fail
\* because the available forecasts of a batch are None.
C24_TreeMatricesWithoutForecasts ==
    (ds.fn = "generate_tree_data_set" /\ ds.name \in KnownDatasets
        /\ ds.pc \in {"returned", "raised"}
        /\ Len(ds.train) >= 1 /\ Len(ds.val) >= 1 /\ Len(ds.test) >= 1) =>
        /\ ds.pc = "returned"
        /\ Len(ds.tree.x_train) = Len(ds.train)
        /\ Len(ds.tree.y_train) = Len(ds.train)
        /\ Len(ds.tree.x_val) = Len(ds.val) /\ Len(ds.tree.y_val) = Len(ds.val)
        /\ Len(ds.tree.x_test) = Len(ds.test) /\ Len(ds.tree.y_test) = Len(ds.test)
        /\ \A j \in 1..Len(ds.train) :
              /\ SubSeq(ds.tree.x_train[j], 1, TreeObserveSteps)
                     = TreeObserved(ds.train_trajectories)[j]
              /\ Len(ds.tree.x_train[j]) = TreeObserveSteps
                     + (DataT - TreeObserveSteps)
                           * Len(TreeAvailFeature(ds.name, ds.add_external_feature))

====
